---- MODULE Spec2Model ----
(***************************************************************************)
(* Model of async_blp: the dispatcher (AsyncBloomberg), its pool of        *)
(* request handlers (RequestHandler / HandlerBase), the requests and the   *)
(* hand-off of provider events to the asyncio loop.                        *)
(***************************************************************************)
EXTENDS Integers, Sequences, FiniteSets, TLC

\* ------------------------------------------------------------------ bounds
MaxSessionsBound == 2     \* largest configured max_sessions explored
MaxRequests == 2          \* requests dispatched in one run of Spec
MaxPoolRequests == 3      \* requests dispatched in one run of SpecPool
MaxMessages == 2          \* messages the provider emits in one run
MaxEventLen == 2          \* messages carried by one provider event
MaxWeight == 2            \* largest request weight explored
MaxListLen == 3           \* longest securities / fields list explored
MaxChunkSize == 3         \* largest max_*_per_request explored
MaxInvalid == 2           \* longest invalid_securities list of an operand
MaxDays == 2              \* latest day number of a date range explored

\* Python's None: the terminal sentinel of a queue, and the correlation id
\* of a message built without one (utils/env_test.py Message.__init__)
None == 0

\* AsyncBloomberg._subscription_handler, the one SubscriptionHandler
SubscriptionHandlerId == MaxSessionsBound + 2

HandlerIds == 1..(MaxSessionsBound + 2)
RequestIds == 1..(MaxRequests + MaxPoolRequests)
Services == {"//blp/refdata", "//blp/instruments"}
Symbols == {"a", "b"}

VARIABLE max_sessions        \* AsyncBloomberg._max_sessions
VARIABLE request_handlers    \* AsyncBloomberg._request_handlers, in list order
VARIABLE num_requests        \* requests constructed so far
VARIABLE last_choice         \* record of the last _choose_handler call
VARIABLE start_requested     \* handler -> session.startAsync() was called
VARIABLE stop_requested      \* handler -> session.stopAsync() was called
VARIABLE session_started     \* handler -> HandlerBase.session_started is set
VARIABLE services            \* handler -> names whose _services[name] is set
VARIABLE open_calls          \* handler -> name -> number of openServiceAsync calls
VARIABLE current_requests    \* handler -> _current_requests, <<key, request>> in dict order
VARIABLE num_keys            \* correlation ids generated so far (uuid4: all distinct)
VARIABLE weight              \* request -> weight
VARIABLE service_name        \* request -> service_name
VARIABLE req_handler         \* request -> handler it was dispatched to (0: not constructed)
VARIABLE send_pc             \* request -> position of its send_requests task
VARIABLE send_key            \* request -> correlation id send_requests gave it (0: none yet)
VARIABLE msg_queue           \* request -> _msg_queue contents
VARIABLE taken               \* request -> what process() got from the queue, in order
VARIABLE process_done        \* request -> process() left its loop
VARIABLE sent                \* request -> arguments of its send_queue_message calls, in order
VARIABLE ready               \* callbacks posted to the loop by call_soon_threadsafe
VARIABLE provider_started    \* handler -> the session emitted SessionStarted
VARIABLE provider_opened     \* handler -> names for which ServiceOpened was emitted
VARIABLE inflight            \* handler -> keys the session still owes a terminal message
VARIABLE num_messages        \* messages emitted by the sessions so far
VARIABLE last_call           \* record of the last event handler / stop_session call
VARIABLE securities          \* argument of _split_requests
VARIABLE fields              \* argument of _split_requests
VARIABLE max_securities_per_request
VARIABLE max_fields_per_request
VARIABLE securities_chunks   \* _split_requests' list of securities chunks
VARIABLE fields_chunks       \* _split_requests' list of fields chunks
VARIABLE chunks              \* list(_split_requests(securities, fields))
VARIABLE split_pc            \* "init" before _split_requests ran, "done" after
VARIABLE session_stopped     \* handler -> HandlerBase.session_stopped is set
VARIABLE provider_terminated \* handler -> the session emitted SessionTerminated
VARIABLE stop_pc             \* position of AsyncBloomberg.stop()
VARIABLE stop_awaited        \* handlers whose session_stopped stop() awaits
VARIABLE error_behaviour     \* AsyncBloomberg._error_behaviour, given to every request
VARIABLE payload             \* message id -> the securityData entities it carries
VARIABLE data_frame          \* request -> data_frame of process(): cell -> value
VARIABLE errors              \* request -> errors of process()
VARIABLE process_raised      \* request -> process() ended with an exception
VARIABLE parse_result        \* outcome of _parse_errors on the first entity
VARIABLE parse_pc            \* "init" before _parse_errors ran, "done" after
VARIABLE self_errors         \* left operand of BloombergErrors.__add__ / first chunk result
VARIABLE other_errors        \* right operand / second chunk result
VARIABLE third_errors        \* third chunk result
VARIABLE new_errors          \* result of self_errors + other_errors
VARIABLE add_pc              \* "init" before the addition ran, "done" after
VARIABLE reference_errors    \* ErrorSet returned by get_reference_data
VARIABLE reference_pc        \* "init" before its merge loop ran, "done" after
VARIABLE historical_errors   \* ErrorSet returned by get_historical_data
VARIABLE historical_pc       \* "init" before its merge loop ran, "done" after
VARIABLE last_status         \* record of the last _session_handler / _service_handler call
VARIABLE last_process        \* record of the last SubscribeData.process() call
VARIABLE msg_corr            \* subscription message id -> its correlation ids
VARIABLE start_date          \* HistoricalDataRequest._start_date, as a day number
VARIABLE end_date            \* HistoricalDataRequest._end_date, as a day number
VARIABLE historical_weight   \* HistoricalDataRequest.weight as computed
VARIABLE weight_pc           \* "init" before weight was read, "done" after
VARIABLE array_field         \* bulk field given to _parse_array_field: its records
VARIABLE array_values        \* outcome of _parse_array_field
VARIABLE array_pc            \* "init" before _parse_array_field ran, "done" after
VARIABLE security_id_type    \* ReferenceDataRequest._security_id_type (prefix or None)
VARIABLE security_name       \* the identifier given to the request, as characters
VARIABLE request_securities  \* "securities" element of the wire request create() built
VARIABLE row_security_id     \* _get_security_id_from_security_data's result (row index)
VARIABLE id_pc               \* "init", "created" after create(), "done" after process()
VARIABLE process_cancelled   \* request -> its process() task was cancelled
VARIABLE load_pc             \* handler -> the loop thread is inside current_load's sum
VARIABLE load_table          \* handler -> the table as current_load's iterator saw it first
VARIABLE last_load           \* record of the last current_load evaluation
VARIABLE last_fanout         \* record of the last bulk query fan-out

dispatcher_vars == <<max_sessions, request_handlers, num_requests, last_choice>>
handler_vars == <<start_requested, stop_requested, session_started, services,
                  open_calls, current_requests, num_keys>>
request_vars == <<weight, service_name, req_handler, send_pc, send_key,
                  msg_queue, taken, process_done, sent>>
provider_vars == <<ready, provider_started, provider_opened, inflight,
                   num_messages, last_call>>
split_vars == <<securities, fields, max_securities_per_request,
                max_fields_per_request, securities_chunks, fields_chunks,
                chunks, split_pc>>
stop_vars == <<session_stopped, provider_terminated, stop_pc, stop_awaited>>
parse_vars == <<error_behaviour, payload, data_frame, errors, process_raised,
                parse_result, parse_pc>>
merge_vars == <<self_errors, other_errors, third_errors, new_errors, add_pc,
                reference_errors, reference_pc, historical_errors,
                historical_pc>>
status_vars == <<last_status, last_process, msg_corr>>
weight_vars == <<start_date, end_date, historical_weight, weight_pc>>
array_vars == <<array_field, array_values, array_pc>>
id_vars == <<security_id_type, security_name, request_securities, row_security_id,
             id_pc>>
task_vars == <<process_cancelled, load_pc, load_table, last_load, last_fanout>>
extra_vars == <<array_vars, id_vars, task_vars>>
api_vars == <<stop_vars, parse_vars, merge_vars, status_vars, weight_vars,
              extra_vars>>
vars == <<dispatcher_vars, handler_vars, request_vars, provider_vars,
         split_vars, api_vars>>

\* ------------------------------------------------------------ sequences
Range(s) == {s[i] : i \in 1..Len(s)}

RECURSIVE SumSeq(_)
SumSeq(s) == IF s = <<>> THEN 0 ELSE Head(s) + SumSeq(Tail(s))

Min2(a, b) == IF a < b THEN a ELSE b

\* Python slice lst[lo:hi] for 0 <= lo <= hi (indices clamp to the length)
Slice(lst, lo, hi) == SubSeq(lst, Min2(lo, Len(lst)) + 1, Min2(hi, Len(lst)))

SeqsUpTo(S, n) == UNION {[1..k -> S] : k \in 0..n}

\* ------------------------------------------------------ HandlerBase state
\* a load that counts the registered requests
current_load_count(table, w) == Len(table)

\* HandlerBase.current_load: sum of the weights of the registered requests
current_load(table, w) == SumSeq([i \in 1..Len(table) |-> w[table[i][2]]])

\* ---------------------------------------------------------- dispatcher
\* min() that keeps the last minimal item instead of the first
LastMinIndex(loads) ==
    CHOOSE i \in 1..Len(loads) :
        /\ \A j \in 1..Len(loads) : loads[i] <= loads[j]
        /\ \A j \in (i + 1)..Len(loads) : loads[j] > loads[i]

\* index of the first handler of the pool with the smallest load: Python's
\* min(list, key=...) returns the first minimal item
FirstMinIndex(loads) ==
    CHOOSE i \in 1..Len(loads) :
        /\ \A j \in 1..Len(loads) : loads[i] <= loads[j]
        /\ \A j \in 1..(i - 1) : loads[j] > loads[i]

\* _choose_handler that opens a session while there is room, before it
\* looks for a free handler
choose_handler_create_first(pool, loads, max) ==
    LET free_handlers == SelectSeq([i \in 1..Len(pool) |-> i],
                                   LAMBDA i : loads[i] = 0)
    IN  IF Len(pool) < max
        THEN [ret |-> Len(pool) + 1, pool |-> Append(pool, Len(pool) + 1),
              created |-> TRUE]
        ELSE IF free_handlers # <<>>
        THEN [ret |-> pool[free_handlers[1]], pool |-> pool, created |-> FALSE]
        ELSE [ret |-> pool[CHOOSE i \in 1..Len(pool) :
                               \A j \in 1..Len(pool) : loads[i] <= loads[j]],
              pool |-> pool, created |-> FALSE]

\* _choose_handler whose capacity test is `<=` instead of `<`
choose_handler_over_capacity(pool, loads, max) ==
    LET free_handlers == SelectSeq([i \in 1..Len(pool) |-> i],
                                   LAMBDA i : loads[i] = 0)
    IN  IF free_handlers # <<>>
        THEN [ret |-> pool[free_handlers[1]], pool |-> pool, created |-> FALSE]
        ELSE IF Len(pool) <= max
        THEN [ret |-> Len(pool) + 1, pool |-> Append(pool, Len(pool) + 1),
              created |-> TRUE]
        ELSE [ret |-> pool[CHOOSE i \in 1..Len(pool) :
                               \A j \in 1..Len(pool) : loads[i] <= loads[j]],
              pool |-> pool, created |-> FALSE]

\* _choose_handler that stops creating handlers one short of max_sessions
choose_handler_no_create(pool, loads, max) ==
    LET free_handlers == SelectSeq([i \in 1..Len(pool) |-> i],
                                   LAMBDA i : loads[i] = 0)
    IN  IF free_handlers # <<>>
        THEN [ret |-> pool[free_handlers[1]], pool |-> pool, created |-> FALSE]
        ELSE IF Len(pool) + 1 < max \/ pool = <<>>
        THEN [ret |-> Len(pool) + 1, pool |-> Append(pool, Len(pool) + 1),
              created |-> TRUE]
        ELSE [ret |-> pool[CHOOSE i \in 1..Len(pool) :
                               \A j \in 1..Len(pool) : loads[i] <= loads[j]],
              pool |-> pool, created |-> FALSE]

\* AsyncBloomberg._choose_handler on pool `pool` whose handlers have the
\* loads `loads` (same order): the handler returned, the pool afterwards,
\* and whether a handler was constructed
choose_handler(pool, loads, max) ==
    LET free_handlers == SelectSeq([i \in 1..Len(pool) |-> i],
                                   LAMBDA i : loads[i] = 0)
    IN  IF free_handlers # <<>>
        THEN [ret |-> pool[free_handlers[1]], pool |-> pool, created |-> FALSE]
        ELSE IF Len(pool) < max
        THEN [ret |-> Len(pool) + 1, pool |-> Append(pool, Len(pool) + 1),
              created |-> TRUE]
        ELSE [ret |-> pool[FirstMinIndex(loads)], pool |-> pool,
              created |-> FALSE]

PoolLoads == [i \in 1..Len(request_handlers) |->
                 current_load(current_requests[request_handlers[i]], weight)]

NoChoice == [called |-> FALSE, ret |-> 0, created |-> FALSE,
             pool_before |-> <<>>, loads_before |-> <<>>,
             pool_after |-> <<>>, started_after |-> FALSE]

\* one iteration of a query's fan-out (get_reference_data, get_historical_data,
\* a lookup, search_fields): _choose_handler, the Request is constructed with
\* an empty queue, and its process() and the handler's send_requests([request])
\* are scheduled as tasks
Dispatch(w, s) ==
    /\ LET c == choose_handler(request_handlers, PoolLoads, max_sessions)
           r == num_requests + 1
       IN  /\ request_handlers' = c.pool
           /\ start_requested' = IF c.created
                                    THEN [start_requested EXCEPT ![c.ret] = TRUE]
                                    ELSE start_requested
           /\ num_requests' = r
           /\ weight' = [weight EXCEPT ![r] = w]
           /\ service_name' = [service_name EXCEPT ![r] = s]
           /\ req_handler' = [req_handler EXCEPT ![r] = c.ret]
           /\ send_pc' = [send_pc EXCEPT ![r] = "wait_session"]
           /\ last_choice' = [called |-> TRUE, ret |-> c.ret,
                              created |-> c.created,
                              pool_before |-> request_handlers,
                              loads_before |-> PoolLoads,
                              pool_after |-> c.pool,
                              started_after |-> start_requested'[c.ret]]
    /\ UNCHANGED <<max_sessions, stop_requested, session_started, services,
                   open_calls, current_requests, num_keys, send_key,
                   msg_queue, taken, process_done, sent, provider_vars,
                   split_vars, api_vars>>

\* ------------------------------------------------------------- handlers
Keys(table) == {table[i][1] : i \in 1..Len(table)}

\* dict lookup table[key]; the key is present
Lookup(table, key) == (CHOOSE i \in 1..Len(table) : table[i][1] = key)

\* dict.pop(key) on a table holding the key: what is left, order kept
Pop(table, key) == SelectSeq(table, LAMBDA e : e[1] # key)

\* a callback posted with loop.call_soon_threadsafe
PutCallback(r, m) == [op |-> "put", req |-> r, msg |-> m, h |-> 0, name |-> ""]
SetStartedCallback(hd) == [op |-> "set_started", req |-> 0, msg |-> 0,
                           h |-> hd, name |-> ""]
SetServiceCallback(hd, s) == [op |-> "set_service", req |-> 0, msg |-> 0,
                              h |-> hd, name |-> s]
SetStoppedCallback(hd) == [op |-> "set_stopped", req |-> 0, msg |-> 0,
                           h |-> hd, name |-> ""]

\* the payload names of the SESSION_STATUS and SERVICE_STATUS messages
SessionStatusNames == {"SessionStarted", "SessionTerminated",
                       "SessionConnectionUp", "SessionConnectionDown",
                       "SessionClusterInfo", "SessionClusterUpdate",
                       "SessionStartupFailure"}
ServiceStatusNames == {"ServiceOpened", "ServiceOpenFailure"}

NoProcess == [req |-> 0, buffered |-> <<>>, consumed |-> <<>>, left |-> <<>>,
              data |-> {}, raised |-> FALSE]

NoStatus == [type |-> "none", h |-> 0, name |-> "", service |-> "",
             posts |-> <<>>, raised |-> FALSE]

\* a _session_handler whose SessionTerminated branch sets session_started
session_handler_same_signal(hd, msg_name) ==
    IF msg_name \in {"SessionStarted", "SessionTerminated"}
    THEN [posts |-> <<SetStartedCallback(hd)>>, raised |-> FALSE]
    ELSE IF msg_name \in {"SessionConnectionUp", "SessionConnectionDown",
                          "SessionClusterInfo", "SessionClusterUpdate"}
    THEN [posts |-> <<>>, raised |-> FALSE]
    ELSE [posts |-> <<>>, raised |-> TRUE]

\* a _session_handler without its last branch
session_handler_no_raise(hd, msg_name) ==
    IF msg_name = "SessionStarted"
    THEN [posts |-> <<SetStartedCallback(hd)>>, raised |-> FALSE]
    ELSE IF msg_name = "SessionTerminated"
    THEN [posts |-> <<SetStoppedCallback(hd)>>, raised |-> FALSE]
    ELSE [posts |-> <<>>, raised |-> FALSE]

\* HandlerBase._session_handler on a message named msg_name: the callbacks
\* it posts with call_soon_threadsafe, and whether _raise_exception raised
session_handler(hd, msg_name) ==
    IF msg_name = "SessionStarted"
    THEN [posts |-> <<SetStartedCallback(hd)>>, raised |-> FALSE]
    ELSE IF msg_name = "SessionTerminated"
    THEN [posts |-> <<SetStoppedCallback(hd)>>, raised |-> FALSE]
    ELSE IF msg_name \in {"SessionConnectionUp", "SessionConnectionDown"}
    THEN [posts |-> <<>>, raised |-> FALSE]
    ELSE IF msg_name \in {"SessionClusterInfo", "SessionClusterUpdate"}
    THEN [posts |-> <<>>, raised |-> FALSE]
    ELSE [posts |-> <<>>, raised |-> TRUE]

\* a _service_handler that sets the event of every service
service_handler_all_services(hd, msg_name, s) ==
    IF msg_name = "ServiceOpened"
    THEN [posts |-> <<SetServiceCallback(hd, "//blp/instruments"),
                      SetServiceCallback(hd, "//blp/refdata")>>,
          raised |-> FALSE]
    ELSE [posts |-> <<>>, raised |-> TRUE]

\* HandlerBase._service_handler on a message named msg_name whose serviceName
\* element is s
service_handler(hd, msg_name, s) ==
    IF msg_name = "ServiceOpened"
    THEN [posts |-> <<SetServiceCallback(hd, s)>>, raised |-> FALSE]
    ELSE [posts |-> <<>>, raised |-> TRUE]

\* The state a handler method works on: the correlation table, the
\* send_queue_message calls made so far (<<request, message>>, in order),
\* whether the method has raised; `addressed` collects the correlation ids
\* _close_requests was asked to close
HandlerState(table) == [table |-> table, posts |-> <<>>, raised |-> FALSE,
                        addressed |-> {}]

\* CloseOne that removes the key and puts no sentinel
CloseOneNoSentinel(st, corr_id) ==
    LET st2 == [st EXCEPT !.addressed = @ \cup {corr_id}]
    IN  IF corr_id \in Keys(st2.table)
        THEN [st2 EXCEPT !.table = Pop(@, corr_id)]
        ELSE st2

\* one iteration of the loop of HandlerBase._close_requests
CloseOne(st, corr_id) ==
    LET st1 == IF corr_id = None
               THEN [st EXCEPT !.posts = @ \o [i \in 1..Len(st.table) |->
                                                  <<st.table[i][2], None>>]]
               ELSE st
        st2 == [st1 EXCEPT !.addressed = @ \cup {corr_id}]
    IN  IF corr_id \in Keys(st2.table)
        THEN [st2 EXCEPT !.table = Pop(@, corr_id),
                         !.posts = Append(@, <<st2.table[Lookup(st2.table, corr_id)][2],
                                               None>>)]
        ELSE st2

\* HandlerBase._close_requests(corr_ids) for a list of correlation ids
RECURSIVE CloseRequests(_, _)
CloseRequests(st, corr_ids) ==
    IF corr_ids = <<>> THEN st
    ELSE CloseRequests(CloseOne(st, Head(corr_ids)), Tail(corr_ids))

\* RequestHandler._partial_response_handler: an error message closes its
\* requests out, any other message is forwarded to the request of each of its
\* correlation ids; the lookup of an unregistered id raises KeyError
RECURSIVE PartialResponseHandler(_, _)
PartialResponseHandler(st, msgs) ==
    IF msgs = <<>> \/ st.raised THEN st
    ELSE LET msg == Head(msgs)
             cor_id == msg.corr[1]
         IN  IF msg.err
             THEN PartialResponseHandler(CloseRequests(st, msg.corr), Tail(msgs))
             ELSE IF cor_id \in Keys(st.table)
             THEN PartialResponseHandler(
                      [st EXCEPT !.posts = Append(@,
                          <<st.table[Lookup(st.table, cor_id)][2], msg.id>>)],
                      Tail(msgs))
             ELSE [st EXCEPT !.raised = TRUE]

RECURSIVE CloseAll(_, _)
CloseAll(st, msgs) ==
    IF msgs = <<>> THEN st
    ELSE CloseAll(CloseRequests(st, Head(msgs).corr), Tail(msgs))

\* RequestHandler._response_handler: the partial-response handling, then the
\* close-out of the correlation ids of every message
ResponseHandler(st, msgs) ==
    LET st1 == PartialResponseHandler(st, msgs)
    IN  IF st1.raised THEN st1 ELSE CloseAll(st1, msgs)

\* HandlerBase.stop_session up to the stopAsync call: _close_requests iterates
\* over the live keys() view of the dict it pops from, so the dict iterator
\* raises RuntimeError when asked for the item after the first pop
StopSessionClose(st) ==
    IF st.table = <<>> THEN st
    ELSE [CloseOne(st, st.table[1][1]) EXCEPT !.raised = TRUE]

NoCall == [type |-> "none", h |-> 0, msgs |-> <<>>, table_before |-> <<>>,
           posts |-> <<>>, addressed |-> {}, raised |-> FALSE]

\* the messages of `posts` sent to request r, in order
PostsTo(posts, r) ==
    LET mine == SelectSeq(posts, LAMBDA p : p[1] = r)
    IN  [i \in 1..Len(mine) |-> mine[i][2]]

\* RequestBase.send_queue_message for every post of a handler method: each is
\* one call_soon_threadsafe(queue.put_nowait, msg)
PostAll(posts) ==
    /\ ready' = ready \o [i \in 1..Len(posts) |->
                              PutCallback(posts[i][1], posts[i][2])]
    /\ sent' = [r \in RequestIds |-> sent[r] \o PostsTo(posts, r)]

\* dict assignment table[key] = r: a held key keeps its place and gets the new
\* value, a new key is appended
Put(table, key, r) ==
    IF key \in Keys(table)
    THEN [i \in 1..Len(table) |->
             IF table[i][1] = key THEN <<key, r>> ELSE table[i]]
    ELSE Append(table, <<key, r>>)

\* a key generator that hands out the same id again
new_correlation_id_reused(n) == 1

\* blpapi.CorrelationId(uuid.uuid4()) as the n+1-th id generated: an id no
\* earlier call returned
new_correlation_id(n) == n + 1

\* RequestHandler.send_requests([r]) from the session_started wait to the
\* service wait: the key is generated and registered, _get_service asks for
\* the service to be opened unless its event is set; when it is set the wait
\* returns at once and the request is sent
SendRegister(r) ==
    /\ send_pc[r] = "wait_session"
    /\ req_handler[r] # SubscriptionHandlerId
    /\ session_started[req_handler[r]]
    /\ LET h == req_handler[r]
           key == new_correlation_id(num_keys)
           s == service_name[r]
       IN  /\ num_keys' = num_keys + 1
           /\ send_key' = [send_key EXCEPT ![r] = key]
           /\ current_requests' = [current_requests EXCEPT
                                      ![h] = Put(@, key, r)]
           /\ IF s \in services[h]
              THEN /\ inflight' = [inflight EXCEPT ![h] = @ \cup {key}]
                   /\ send_pc' = [send_pc EXCEPT ![r] = "done"]
                   /\ UNCHANGED open_calls
              ELSE /\ open_calls' = [open_calls EXCEPT ![h][s] = @ + 1]
                   /\ send_pc' = [send_pc EXCEPT ![r] = "wait_service"]
                   /\ UNCHANGED inflight
    /\ UNCHANGED <<dispatcher_vars, start_requested, stop_requested,
                   session_started, services, weight, service_name,
                   req_handler, msg_queue, taken, process_done, sent, ready,
                   provider_started, provider_opened, num_messages, last_call,
                   split_vars, api_vars>>

\* send_requests whose service wait is released by any opened service
SendResumeAnyService(r) ==
    /\ send_pc[r] = "wait_service"
    /\ services[req_handler[r]] # {}
    /\ inflight' = [inflight EXCEPT ![req_handler[r]] = @ \cup {send_key[r]}]
    /\ send_pc' = [send_pc EXCEPT ![r] = "done"]
    /\ UNCHANGED <<dispatcher_vars, handler_vars, weight, service_name,
                   req_handler, send_key, msg_queue, taken, process_done, sent,
                   ready, provider_started, provider_opened, num_messages,
                   last_call, split_vars, api_vars>>

\* send_requests resumes after the service wait: request.create and
\* session.sendRequest under the key
SendResume(r) ==
    /\ send_pc[r] = "wait_service"
    /\ service_name[r] \in services[req_handler[r]]
    /\ inflight' = [inflight EXCEPT ![req_handler[r]] = @ \cup {send_key[r]}]
    /\ send_pc' = [send_pc EXCEPT ![r] = "done"]
    /\ UNCHANGED <<dispatcher_vars, handler_vars, weight, service_name,
                   req_handler, send_key, msg_queue, taken, process_done, sent,
                   ready, provider_started, provider_opened, num_messages,
                   last_call, split_vars, api_vars>>

\* a _session_handler that calls session_started.set() itself, in the
\* session's thread
SessionStartedDirect(h) ==
    /\ start_requested[h]
    /\ ~provider_started[h]
    /\ provider_started' = [provider_started EXCEPT ![h] = TRUE]
    /\ session_started' = [session_started EXCEPT ![h] = TRUE]
    /\ last_status' = [type |-> "SESSION_STATUS", h |-> h,
                       name |-> "SessionStarted", service |-> "",
                       posts |-> <<>>, raised |-> FALSE]
    /\ UNCHANGED <<dispatcher_vars, start_requested, stop_requested, services,
                   open_calls, current_requests, num_keys, request_vars,
                   ready, provider_opened, inflight, num_messages, last_call,
                   split_vars, stop_vars, parse_vars, merge_vars,
                   last_process, msg_corr, weight_vars, extra_vars>>

\* the session emits SESSION_STATUS / SessionStarted: _session_handler posts
\* session_started.set to the loop
SessionStarted(h) ==
    /\ start_requested[h]
    /\ ~provider_started[h]
    /\ provider_started' = [provider_started EXCEPT ![h] = TRUE]
    /\ LET c == session_handler(h, "SessionStarted")
       IN  /\ ready' = ready \o c.posts
           /\ last_status' = [type |-> "SESSION_STATUS", h |-> h,
                              name |-> "SessionStarted", service |-> "",
                              posts |-> c.posts, raised |-> c.raised]
    /\ UNCHANGED <<dispatcher_vars, handler_vars, request_vars,
                   provider_opened, inflight, num_messages, last_call,
                   split_vars, stop_vars, parse_vars, merge_vars,
                   last_process, msg_corr, weight_vars, extra_vars>>

\* the session emits SERVICE_STATUS / ServiceOpened for a service it was
\* asked to open: _service_handler posts the service event's set to the loop
ServiceOpened(h, s) ==
    /\ open_calls[h][s] > 0
    /\ s \notin provider_opened[h]
    /\ provider_opened' = [provider_opened EXCEPT ![h] = @ \cup {s}]
    /\ LET c == service_handler(h, "ServiceOpened", s)
       IN  /\ ready' = ready \o c.posts
           /\ last_status' = [type |-> "SERVICE_STATUS", h |-> h,
                              name |-> "ServiceOpened", service |-> s,
                              posts |-> c.posts, raised |-> c.raised]
    /\ UNCHANGED <<dispatcher_vars, handler_vars, request_vars,
                   provider_started, inflight, num_messages, last_call,
                   split_vars, stop_vars, parse_vars, merge_vars,
                   last_process, msg_corr, weight_vars, extra_vars>>

\* the session emits a SESSION_STATUS message other than SessionStarted and
\* SessionTerminated: a change of the connection or of the cluster once the
\* session is up, SessionStartupFailure instead of SessionStarted
SessionEvent(h, msg_name) ==
    /\ start_requested[h]
    /\ msg_name \in SessionStatusNames \ {"SessionStarted", "SessionTerminated"}
    /\ (msg_name = "SessionStartupFailure") = ~provider_started[h]
    /\ LET c == session_handler(h, msg_name)
       IN  /\ ready' = ready \o c.posts
           /\ last_status' = [type |-> "SESSION_STATUS", h |-> h,
                              name |-> msg_name, service |-> "",
                              posts |-> c.posts, raised |-> c.raised]
    /\ UNCHANGED <<dispatcher_vars, handler_vars, request_vars,
                   provider_started, provider_opened, inflight, num_messages,
                   last_call, split_vars, stop_vars, parse_vars, merge_vars,
                   last_process, msg_corr, weight_vars, extra_vars>>

\* the session emits SERVICE_STATUS / ServiceOpenFailure for a service it was
\* asked to open and has not opened
ServiceOpenFailure(h, s) ==
    /\ open_calls[h][s] > 0
    /\ s \notin provider_opened[h]
    /\ LET c == service_handler(h, "ServiceOpenFailure", s)
       IN  /\ ready' = ready \o c.posts
           /\ last_status' = [type |-> "SERVICE_STATUS", h |-> h,
                              name |-> "ServiceOpenFailure", service |-> s,
                              posts |-> c.posts, raised |-> c.raised]
    /\ UNCHANGED <<dispatcher_vars, handler_vars, request_vars,
                   provider_started, provider_opened, inflight, num_messages,
                   last_call, split_vars, stop_vars, parse_vars, merge_vars,
                   last_process, msg_corr, weight_vars, extra_vars>>

\* the keys a provider event is terminal for: every key of a RESPONSE event,
\* the keys of the responseError messages of a PARTIAL_RESPONSE event
TerminalKeys(type, msgs) ==
    {msgs[i].corr[1] : i \in {j \in 1..Len(msgs) :
                                 type = "RESPONSE" \/ msgs[j].err}}

\* HandlerBase.__call__ with a PARTIAL_RESPONSE or RESPONSE event, run in the
\* session's thread
ResponseEvent(h, type, msgs) ==
    /\ inflight[h] # {}
    /\ num_messages + Len(msgs) <= MaxMessages
    /\ LET st0 == HandlerState(current_requests[h])
           st == IF type = "RESPONSE" THEN ResponseHandler(st0, msgs)
                                      ELSE PartialResponseHandler(st0, msgs)
       IN  /\ current_requests' = [current_requests EXCEPT ![h] = st.table]
           /\ PostAll(st.posts)
           /\ last_call' = [type |-> type, h |-> h, msgs |-> msgs,
                            table_before |-> current_requests[h],
                            posts |-> st.posts, addressed |-> st.addressed,
                            raised |-> st.raised]
    /\ num_messages' = num_messages + Len(msgs)
    /\ inflight' = [inflight EXCEPT ![h] = @ \ TerminalKeys(type, msgs)]
    /\ UNCHANGED <<dispatcher_vars, start_requested, stop_requested,
                   session_started, services, open_calls, num_keys, weight,
                   service_name, req_handler, send_pc, send_key, msg_queue,
                   taken, process_done, provider_started, provider_opened,
                   split_vars, api_vars>>

\* the events a session can emit: 1..MaxEventLen messages, each with one
\* correlation id (a key the session owes an answer to, or None) and with or
\* without the responseError element
EventMessages(h) ==
    UNION {{[i \in 1..n |-> [id |-> num_messages + i, corr |-> <<f[i][1]>>,
                              err |-> f[i][2]]] :
               f \in [1..n -> (inflight[h] \cup {None}) \X BOOLEAN]} :
           n \in 1..MaxEventLen}

PartialResponse(h) ==
    \E msgs \in EventMessages(h) : ResponseEvent(h, "PARTIAL_RESPONSE", msgs)

Response(h) ==
    \E msgs \in EventMessages(h) : ResponseEvent(h, "RESPONSE", msgs)

\* HandlerBase.stop_session, called on the loop's thread: the close-out of
\* every registered request, then session.stopAsync unless the close-out raised
StopSession(h) ==
    /\ h \in Range(request_handlers)
    /\ ~stop_requested[h]
    /\ LET st == StopSessionClose(HandlerState(current_requests[h]))
       IN  /\ current_requests' = [current_requests EXCEPT ![h] = st.table]
           /\ PostAll(st.posts)
           /\ stop_requested' = [stop_requested EXCEPT ![h] = ~st.raised]
           /\ last_call' = [type |-> "stop_session", h |-> h, msgs |-> <<>>,
                            table_before |-> current_requests[h],
                            posts |-> st.posts,
                            addressed |-> Keys(current_requests[h]),
                            raised |-> st.raised]
    /\ UNCHANGED <<dispatcher_vars, start_requested, session_started,
                   services, open_calls, num_keys, weight, service_name,
                   req_handler, send_pc, send_key, msg_queue, taken,
                   process_done, provider_started, provider_opened, inflight,
                   num_messages, split_vars, api_vars>>

\* --------------------------------------------------- errors and parsing
ErrorBehaviours == {"IGNORE", "RETURN", "RAISE"}

\* the error message of a field exception, as ErrorType classifies it
FieldMessages == {"Field not valid", "Field not applicable to security"}

\* BloombergErrors(): no invalid security, no invalid field.  invalid_fields
\* is a dict, held as the set of its <<key, value>> items
EmptyErrors == [invalid_securities |-> <<>>, invalid_fields |-> {}]

\* dict.update: the items of `other` replace the items of `d` with their key
DictUpdate(d, other) ==
    {item \in d : ~\E o \in other : o[1] = item[1]} \cup other

\* the lists list(set(...)) can return: the members of S once each, in any order
Orderings(S) == {q \in [1..Cardinality(S) -> S] : Range(q) = S}

\* BloombergErrors.__add__ that keeps the left operand's value on a key both
\* operands hold
BloombergErrors_add_left(self, other) ==
    {[invalid_securities |-> q,
      invalid_fields |-> DictUpdate(other.invalid_fields, self.invalid_fields)] :
        q \in Orderings(Range(self.invalid_securities
                                  \o other.invalid_securities))}

\* BloombergErrors.__add__: the results it can return (the order of
\* list(set(...)) is not determined); the operands are not touched
BloombergErrors_add(self, other) ==
    {[invalid_securities |-> q,
      invalid_fields |-> DictUpdate(self.invalid_fields, other.invalid_fields)] :
        q \in Orderings(Range(self.invalid_securities
                                  \o other.invalid_securities))}

\* bool(obj) of a BloombergErrors: the dataclass defines neither __bool__ nor
\* __len__, so every instance is true
Truthy(security_errors) == TRUE

\* _parse_field_exceptions: one item per field exception of the entity
parse_field_exceptions(security_id, field_exceptions) ==
    {<<<<security_id, f>>, "Field not valid">> : f \in field_exceptions}

NoParse == [raised |-> FALSE, none |-> FALSE, errors |-> EmptyErrors]

\* ReferenceDataRequest._parse_errors (parser.parse_errors is the same code):
\* `none` when it returns None, `raised` when it raises BloombergException,
\* else `errors` is the BloombergErrors it returns
parse_errors(security_data, behaviour) ==
    IF behaviour = "IGNORE" THEN [NoParse EXCEPT !.none = TRUE]
    ELSE LET security_errors ==
                 [invalid_securities |->
                      IF security_data.security_error
                      THEN <<security_data.security>> ELSE <<>>,
                  invalid_fields |->
                      parse_field_exceptions(security_data.security,
                                             security_data.field_exceptions)]
         IN  IF behaviour = "RAISE" /\ Truthy(security_errors)
             THEN [NoParse EXCEPT !.raised = TRUE]
             ELSE [NoParse EXCEPT !.errors = security_errors]

\* _parse_security_data: the one-row frame of the entity, as the items
\* <<<<security, field>>, value>> of its cells
parse_security_data(security_data) ==
    {<<<<security_data.security, fv[1]>>, fv[2]>> :
        fv \in security_data.field_data}

\* data_frame.loc[index, columns] = msg_frame: the cells of the frame are
\* written over the table's
LocAssign(df, msg_frame) ==
    {cell \in df : ~\E c \in msg_frame : c[1] = cell[1]} \cup msg_frame

\* the body of process()'s loop for the entities of one message: the states
\* [data_frame, errors, raised] it can end in.  getElement(FIELD_DATA) raises
\* when the entity has no fieldData element
RECURSIVE ProcessEntities(_, _, _)
ProcessEntities(st, msg_data, behaviour) ==
    IF msg_data = <<>> \/ st.raised THEN {st}
    ELSE LET security_data == Head(msg_data)
         IN  IF ~security_data.has_field_data
             THEN {[st EXCEPT !.raised = TRUE]}
             ELSE LET df == LocAssign(st.data_frame,
                                      parse_security_data(security_data))
                      security_errors == parse_errors(security_data, behaviour)
                  IN  IF security_errors.raised
                      THEN {[st EXCEPT !.data_frame = df, !.raised = TRUE]}
                      ELSE IF security_errors.none
                      THEN ProcessEntities([st EXCEPT !.data_frame = df],
                                           Tail(msg_data), behaviour)
                      ELSE UNION {ProcessEntities(
                                      [st EXCEPT !.data_frame = df,
                                                 !.errors = e],
                                      Tail(msg_data), behaviour) :
                                  e \in BloombergErrors_add(
                                            st.errors, security_errors.errors)}

\* the session emits SESSION_STATUS / SessionTerminated once its stop was
\* requested: _session_handler posts session_stopped.set to the loop
SessionTerminated(h) ==
    /\ stop_requested[h]
    /\ ~provider_terminated[h]
    /\ provider_terminated' = [provider_terminated EXCEPT ![h] = TRUE]
    /\ LET c == session_handler(h, "SessionTerminated")
       IN  /\ ready' = ready \o c.posts
           /\ last_status' = [type |-> "SESSION_STATUS", h |-> h,
                              name |-> "SessionTerminated", service |-> "",
                              posts |-> c.posts, raised |-> c.raised]
    /\ UNCHANGED <<dispatcher_vars, handler_vars, request_vars,
                   provider_started, provider_opened, inflight, num_messages,
                   last_call, split_vars, session_stopped, stop_pc,
                   stop_awaited, parse_vars, merge_vars, last_process,
                   msg_corr, weight_vars, extra_vars>>

\* the first loop of AsyncBloomberg.stop(): stop_session on the request
\* handlers in pool order; an exception of stop_session ends the loop.
\* st = [tables, posts, stopped, raised]
RECURSIVE StopHandlers(_, _)
StopHandlers(st, handlers) ==
    IF handlers = <<>> \/ st.raised THEN st
    ELSE LET handler == Head(handlers)
             c == StopSessionClose(HandlerState(st.tables[handler]))
         IN  StopHandlers([tables |-> [st.tables EXCEPT ![handler] = c.table],
                           posts |-> st.posts \o c.posts,
                           stopped |-> IF c.raised THEN st.stopped
                                       ELSE st.stopped \cup {handler},
                           raised |-> c.raised],
                          Tail(handlers))

\* the handlers AsyncBloomberg.stop() stops, in the order of its calls of
\* stop_session: the request handlers, then the subscription handler if
\* add_subscriber created one
StoppedHandlers ==
    request_handlers \o (IF start_requested[SubscriptionHandlerId]
                            THEN <<SubscriptionHandlerId>> ELSE <<>>)

\* AsyncBloomberg.stop() up to its await: stop_session on every request
\* handler and on the subscription handler, then the wait for every
\* handler's session_stopped
Stop ==
    /\ stop_pc = "idle"
    /\ LET st == StopHandlers([tables |-> current_requests, posts |-> <<>>,
                               stopped |-> {}, raised |-> FALSE],
                              StoppedHandlers)
       IN  /\ current_requests' = st.tables
           /\ PostAll(st.posts)
           /\ stop_requested' = [h \in HandlerIds |->
                                    stop_requested[h] \/ h \in st.stopped]
           /\ stop_pc' = IF st.raised THEN "raised" ELSE "waiting"
           /\ stop_awaited' = IF st.raised THEN {} ELSE Range(StoppedHandlers)
    /\ UNCHANGED <<dispatcher_vars, start_requested, session_started,
                   services, open_calls, num_keys, weight, service_name,
                   req_handler, send_pc, send_key, msg_queue, taken,
                   process_done, provider_started, provider_opened, inflight,
                   num_messages, last_call, split_vars, session_stopped,
                   provider_terminated, parse_vars, merge_vars,
                   status_vars, weight_vars, extra_vars>>

\* stop() returns from asyncio.gather once every awaited session_stopped is set
StopReturn ==
    /\ stop_pc = "waiting"
    /\ \A h \in stop_awaited : session_stopped[h]
    /\ stop_pc' = "returned"
    /\ UNCHANGED <<dispatcher_vars, handler_vars, request_vars, provider_vars,
                   split_vars, session_stopped, provider_terminated,
                   stop_awaited, parse_vars, merge_vars,
                   status_vars, weight_vars, extra_vars>>

\* a loop that runs the newest posted callback first
RunNewestCallback ==
    /\ ready # <<>>
    /\ LET cb == ready[Len(ready)]
       IN  /\ msg_queue' = IF cb.op = "put"
                             THEN [msg_queue EXCEPT ![cb.req] = Append(@, cb.msg)]
                             ELSE msg_queue
           /\ session_started' = IF cb.op = "set_started"
                                   THEN [session_started EXCEPT ![cb.h] = TRUE]
                                   ELSE session_started
           /\ services' = IF cb.op = "set_service"
                            THEN [services EXCEPT ![cb.h] = @ \cup {cb.name}]
                            ELSE services
           /\ session_stopped' = IF cb.op = "set_stopped"
                                   THEN [session_stopped EXCEPT ![cb.h] = TRUE]
                                   ELSE session_stopped
    /\ ready' = SubSeq(ready, 1, Len(ready) - 1)
    /\ UNCHANGED <<dispatcher_vars, start_requested, stop_requested,
                   open_calls, current_requests, num_keys, weight,
                   service_name, req_handler, send_pc, send_key, taken,
                   process_done, sent, provider_started, provider_opened,
                   inflight, num_messages, last_call, split_vars,
                   provider_terminated, stop_pc, stop_awaited, parse_vars,
                   merge_vars,
                   status_vars, weight_vars, extra_vars>>

\* the loop runs the oldest callback posted with call_soon_threadsafe:
\* queue.put_nowait(msg) appends to the request's queue, Event.set sets the
\* session_started, session_stopped or service event
RunCallback ==
    /\ ready # <<>>
    /\ LET cb == Head(ready)
       IN  /\ msg_queue' = IF cb.op = "put"
                             THEN [msg_queue EXCEPT ![cb.req] = Append(@, cb.msg)]
                             ELSE msg_queue
           /\ session_started' = IF cb.op = "set_started"
                                   THEN [session_started EXCEPT ![cb.h] = TRUE]
                                   ELSE session_started
           /\ services' = IF cb.op = "set_service"
                            THEN [services EXCEPT ![cb.h] = @ \cup {cb.name}]
                            ELSE services
           /\ session_stopped' = IF cb.op = "set_stopped"
                                   THEN [session_stopped EXCEPT ![cb.h] = TRUE]
                                   ELSE session_stopped
    /\ ready' = Tail(ready)
    /\ UNCHANGED <<dispatcher_vars, start_requested, stop_requested,
                   open_calls, current_requests, num_keys, weight,
                   service_name, req_handler, send_pc, send_key, taken,
                   process_done, sent, provider_started, provider_opened,
                   inflight, num_messages, last_call, split_vars,
                   provider_terminated, stop_pc, stop_awaited, parse_vars,
                   merge_vars,
                   status_vars, weight_vars, extra_vars>>

\* process() that takes the next message after the sentinel as well
ProcessGetPastSentinel(r) ==
    /\ req_handler[r] # 0
    /\ ~process_raised[r]
    /\ msg_queue[r] # <<>>
    /\ LET msg == Head(msg_queue[r])
       IN  /\ taken' = [taken EXCEPT ![r] = Append(@, msg)]
           /\ msg_queue' = [msg_queue EXCEPT ![r] = Tail(@)]
           /\ process_done' = [process_done EXCEPT ![r] = (@ \/ msg = None)]
           /\ IF msg = None
              THEN UNCHANGED <<data_frame, errors, process_raised>>
              ELSE \E st \in ProcessEntities(
                                 [data_frame |-> data_frame[r],
                                  errors |-> errors[r], raised |-> FALSE],
                                 payload[msg], error_behaviour) :
                       /\ data_frame' = [data_frame EXCEPT ![r] = st.data_frame]
                       /\ errors' = [errors EXCEPT ![r] = st.errors]
                       /\ process_raised' = [process_raised EXCEPT
                                                ![r] = st.raised]
    /\ UNCHANGED <<dispatcher_vars, handler_vars, weight, service_name,
                   req_handler, send_pc, send_key, sent, provider_vars,
                   split_vars, stop_vars, error_behaviour, payload,
                   parse_result, parse_pc, merge_vars,
                   status_vars, weight_vars, extra_vars>>

\* one turn of the loop of process(): `await self._msg_queue.get()` returns
\* the oldest item of the queue; None ends the loop, any other message is
\* parsed entity by entity into data_frame and errors
ProcessGet(r) ==
    /\ req_handler[r] # 0
    /\ ~process_done[r]
    /\ ~process_raised[r]
    /\ ~process_cancelled[r]
    /\ msg_queue[r] # <<>>
    /\ LET msg == Head(msg_queue[r])
       IN  /\ taken' = [taken EXCEPT ![r] = Append(@, msg)]
           /\ msg_queue' = [msg_queue EXCEPT ![r] = Tail(@)]
           /\ process_done' = [process_done EXCEPT ![r] = (msg = None)]
           /\ IF msg = None
              THEN UNCHANGED <<data_frame, errors, process_raised>>
              ELSE \E st \in ProcessEntities(
                                 [data_frame |-> data_frame[r],
                                  errors |-> errors[r], raised |-> FALSE],
                                 payload[msg], error_behaviour) :
                       /\ data_frame' = [data_frame EXCEPT ![r] = st.data_frame]
                       /\ errors' = [errors EXCEPT ![r] = st.errors]
                       /\ process_raised' = [process_raised EXCEPT
                                                ![r] = st.raised]
    /\ UNCHANGED <<dispatcher_vars, handler_vars, weight, service_name,
                   req_handler, send_pc, send_key, sent, provider_vars,
                   split_vars, stop_vars, error_behaviour, payload,
                   parse_result, parse_pc, merge_vars,
                   status_vars, weight_vars, extra_vars>>

\* ------------------------------------------------------- _split_requests
\* split_into_chunks without the chunk for the remainder
split_into_chunks_floor(iterable, chunk_size) ==
    [i \in 1..(Len(iterable) \div chunk_size) |->
        Slice(iterable, (i - 1) * chunk_size, i * chunk_size)]

\* split_into_chunks whose slices end one item late
split_into_chunks_long(iterable, chunk_size) ==
    LET num_chunks == IF Len(iterable) % chunk_size # 0
                      THEN (Len(iterable) \div chunk_size) + 1
                      ELSE Len(iterable) \div chunk_size
    IN  [i \in 1..num_chunks |->
            Slice(iterable, (i - 1) * chunk_size, i * chunk_size + 1)]

\* utils.misc.split_into_chunks, as the list of the chunks it yields
split_into_chunks(iterable, chunk_size) ==
    LET num_chunks == IF Len(iterable) % chunk_size # 0
                      THEN (Len(iterable) \div chunk_size) + 1
                      ELSE Len(iterable) \div chunk_size
    IN  [i \in 1..num_chunks |->
            Slice(iterable, (i - 1) * chunk_size, i * chunk_size)]

\* itertools.product(xs, ys) as a list: the rightmost argument varies fastest
product(xs, ys) ==
    [n \in 1..(Len(xs) * Len(ys)) |->
        <<xs[((n - 1) \div Len(ys)) + 1], ys[((n - 1) % Len(ys)) + 1]>>]

\* AsyncBloomberg._split_requests: both lists are chunked, the sub-queries
\* are the product of the two lists of chunks
SplitRequests ==
    /\ split_pc = "init"
    /\ securities_chunks' = split_into_chunks(securities,
                                              max_securities_per_request)
    /\ fields_chunks' = split_into_chunks(fields, max_fields_per_request)
    /\ chunks' = product(securities_chunks', fields_chunks')
    /\ split_pc' = "done"
    /\ UNCHANGED <<securities, fields, max_securities_per_request,
                   max_fields_per_request, dispatcher_vars, handler_vars,
                   request_vars, provider_vars, api_vars>>

\* ------------------------------------------------- parsing and fan-in
\* _parse_errors applied to the first entity of the first message
ParseErrors ==
    /\ parse_pc = "init"
    /\ parse_result' = parse_errors(payload[1][1], error_behaviour)
    /\ parse_pc' = "done"
    /\ UNCHANGED <<dispatcher_vars, handler_vars, request_vars, provider_vars,
                   split_vars, stop_vars, error_behaviour, payload,
                   data_frame, errors, process_raised, merge_vars,
                   status_vars, weight_vars, extra_vars>>

\* self_errors + other_errors
Add ==
    /\ add_pc = "init"
    /\ \E res \in BloombergErrors_add(self_errors, other_errors) :
           new_errors' = res
    /\ add_pc' = "done"
    /\ UNCHANGED <<dispatcher_vars, handler_vars, request_vars, provider_vars,
                   split_vars, stop_vars, parse_vars, self_errors,
                   other_errors, third_errors, reference_errors,
                   reference_pc, historical_errors, historical_pc,
                   status_vars, weight_vars, extra_vars>>

\* the ErrorSets of the chunks' process() tasks, as asyncio.gather returns them
requests_result == <<self_errors, other_errors, third_errors>>

\* the merge loop of get_reference_data: `errors += error` for each chunk
RECURSIVE MergeChunkErrors(_, _)
MergeChunkErrors(errs, results) ==
    IF results = <<>> THEN {errs}
    ELSE UNION {MergeChunkErrors(e, Tail(results)) :
                    e \in BloombergErrors_add(errs, Head(results))}

\* the merge loop of get_historical_data: `errors += BloombergErrors()` for
\* each chunk
RECURSIVE MergeNewErrors(_, _)
MergeNewErrors(errs, results) ==
    IF results = <<>> THEN {errs}
    ELSE UNION {MergeNewErrors(e, Tail(results)) :
                    e \in BloombergErrors_add(errs, EmptyErrors)}

\* get_reference_data after asyncio.gather: the ErrorSet it returns
GetReferenceDataMerge ==
    /\ reference_pc = "init"
    /\ \E res \in MergeChunkErrors(EmptyErrors, requests_result) :
           reference_errors' = res
    /\ reference_pc' = "done"
    /\ UNCHANGED <<dispatcher_vars, handler_vars, request_vars, provider_vars,
                   split_vars, stop_vars, parse_vars, self_errors,
                   other_errors, third_errors, new_errors, add_pc,
                   historical_errors, historical_pc,
                   status_vars, weight_vars, extra_vars>>

\* get_historical_data after asyncio.gather: the ErrorSet it returns
GetHistoricalDataMerge ==
    /\ historical_pc = "init"
    /\ \E res \in MergeNewErrors(EmptyErrors, requests_result) :
           historical_errors' = res
    /\ historical_pc' = "done"
    /\ UNCHANGED <<dispatcher_vars, handler_vars, request_vars, provider_vars,
                   split_vars, stop_vars, parse_vars, self_errors,
                   other_errors, third_errors, new_errors, add_pc,
                   reference_errors, reference_pc,
                   status_vars, weight_vars, extra_vars>>

\* ----------------------------------------------------------------- weight
\* ReferenceDataRequest.weight
ReferenceDataRequest_weight(secs, flds) == Len(secs) * Len(flds)

\* HistoricalDataRequest.weight: (end_date - start_date).days is the
\* difference of the two day numbers
HistoricalDataRequest_weight(secs, flds, start, end) ==
    LET num_days == end - start
    IN  ReferenceDataRequest_weight(secs, flds) * num_days

\* the weight property of a HistoricalDataRequest is read
HistoricalWeight ==
    /\ weight_pc = "init"
    /\ historical_weight' = HistoricalDataRequest_weight(securities, fields,
                                                         start_date, end_date)
    /\ weight_pc' = "done"
    /\ UNCHANGED <<dispatcher_vars, handler_vars, request_vars, provider_vars,
                   split_vars, stop_vars, parse_vars, merge_vars, status_vars,
                   start_date, end_date, extra_vars>>

\* ---------------------------------------------------------- subscriptions
\* the security number m stands for
SymbolAt(m) == IF m % 2 = 1 THEN "a" ELSE "b"

\* AsyncBloomberg.add_subscriber up to the wait of subscribe: the Subscription
\* is constructed with an empty queue, the SubscriptionHandler is created
\* (and its session started) unless there is one
AddSubscriber ==
    /\ LET r == num_requests + 1
       IN  /\ num_requests' = r
           /\ start_requested' = [start_requested EXCEPT
                                     ![SubscriptionHandlerId] = TRUE]
           /\ weight' = [weight EXCEPT ![r] = 1]
           /\ service_name' = [service_name EXCEPT ![r] = "//blp/mktdata"]
           /\ req_handler' = [req_handler EXCEPT ![r] = SubscriptionHandlerId]
           /\ send_pc' = [send_pc EXCEPT ![r] = "wait_session"]
    /\ UNCHANGED <<max_sessions, request_handlers, last_choice,
                   stop_requested, session_started, services, open_calls,
                   current_requests, num_keys, send_key, msg_queue, taken,
                   process_done, sent, provider_vars, split_vars, api_vars>>

\* SubscriptionHandler.subscribe([r]) after its wait for session_started: the
\* subscription is registered under a new uuid4 label and session.subscribe
\* is called
Subscribe(r) ==
    /\ send_pc[r] = "wait_session"
    /\ req_handler[r] = SubscriptionHandlerId
    /\ session_started[SubscriptionHandlerId]
    /\ LET key == new_correlation_id(num_keys)
       IN  /\ num_keys' = num_keys + 1
           /\ send_key' = [send_key EXCEPT ![r] = key]
           /\ current_requests' = [current_requests EXCEPT
                                      ![SubscriptionHandlerId] = Put(@, key, r)]
           /\ inflight' = [inflight EXCEPT
                              ![SubscriptionHandlerId] = @ \cup {key}]
           /\ send_pc' = [send_pc EXCEPT ![r] = "done"]
    /\ UNCHANGED <<dispatcher_vars, start_requested, stop_requested,
                   session_started, services, open_calls, weight,
                   service_name, req_handler, msg_queue, taken, process_done,
                   sent, ready, provider_started, provider_opened,
                   num_messages, last_call, split_vars, api_vars>>

\* a data handler that forwards a message to the subscriptions its
\* correlation ids name
RECURSIVE subscriber_data_handler_by_id(_, _)
subscriber_data_handler_by_id(st, msgs) ==
    IF msgs = <<>> THEN st
    ELSE LET mine == SelectSeq(st.table,
                               LAMBDA e : e[2] \in Range(Head(msgs).corr))
         IN  subscriber_data_handler_by_id(
                 [st EXCEPT !.posts = @ \o [i \in 1..Len(mine) |->
                                               <<mine[i][2], Head(msgs).id>>]],
                 Tail(msgs))

\* SubscriptionHandler._subscriber_data_handler: every message of the event
\* is sent to every request of _current_requests, in dict order
RECURSIVE subscriber_data_handler(_, _)
subscriber_data_handler(st, msgs) ==
    IF msgs = <<>> THEN st
    ELSE subscriber_data_handler(
             [st EXCEPT !.posts = @ \o [i \in 1..Len(st.table) |->
                                           <<st.table[i][2], Head(msgs).id>>]],
             Tail(msgs))

\* the subscriptions the session was given
Subscribed ==
    {r \in RequestIds : req_handler[r] = SubscriptionHandlerId
                           /\ send_pc[r] = "done"}

\* the correlation ids a subscription message can carry: SubscribeData gives
\* each of its securities an id of its own (here the request's number), and a
\* message carries the id of one subscription or of both
SubscriptionCorrIds ==
    {<<r>> : r \in Subscribed}
        \cup {p \in Subscribed \X Subscribed : p[1] # p[2]}

\* the SUBSCRIPTION_DATA events the session can emit: 1..MaxEventLen messages
SubscriptionMessages ==
    UNION {{[i \in 1..n |-> [id |-> num_messages + i, corr |-> c[i],
                              err |-> FALSE]] :
               c \in [1..n -> SubscriptionCorrIds]} :
           n \in 1..MaxEventLen}

\* HandlerBase.__call__ with a SUBSCRIPTION_DATA event, run in the session's
\* thread
SubscriptionData ==
    /\ Subscribed # {}
    /\ ~provider_terminated[SubscriptionHandlerId]
    /\ \E msgs \in SubscriptionMessages :
           /\ num_messages + Len(msgs) <= MaxMessages
           /\ LET h == SubscriptionHandlerId
                  st == subscriber_data_handler(
                            HandlerState(current_requests[h]), msgs)
              IN  /\ current_requests' = [current_requests EXCEPT
                                             ![h] = st.table]
                  /\ PostAll(st.posts)
                  /\ last_call' = [type |-> "SUBSCRIPTION_DATA", h |-> h,
                                   msgs |-> msgs,
                                   table_before |-> current_requests[h],
                                   posts |-> st.posts,
                                   addressed |-> st.addressed,
                                   raised |-> st.raised]
           /\ num_messages' = num_messages + Len(msgs)
           /\ msg_corr' = [m \in 1..MaxMessages |->
                              IF \E i \in 1..Len(msgs) : msgs[i].id = m
                              THEN msgs[m - num_messages].corr
                              ELSE msg_corr[m]]
    /\ UNCHANGED <<dispatcher_vars, start_requested, stop_requested,
                   session_started, services, open_calls, num_keys, weight,
                   service_name, req_handler, send_pc, send_key, msg_queue,
                   taken, process_done, provider_started, provider_opened,
                   inflight, split_vars, stop_vars, parse_vars, merge_vars,
                   last_status, last_process, weight_vars, extra_vars>>

\* index of the first None of a queue, 0 if it holds none
FirstNone(q) ==
    IF \E i \in 1..Len(q) : q[i] = None
    THEN CHOOSE i \in 1..Len(q) :
             q[i] = None /\ \A j \in 1..(i - 1) : q[j] # None
    ELSE 0

\* the loop body of SubscribeData.process over the messages msgs: for each
\* correlation id of the message that is one of the subscription's own, each
\* field of the message replaces the column data[field] by {security: value}
RECURSIVE subscribe_data_parse(_, _, _)
subscribe_data_parse(data, msgs, r) ==
    IF msgs = <<>> THEN data
    ELSE LET msg == Head(msgs)
             found == IF r \in Range(msg_corr[msg])
                      THEN {<<c[1], <<SymbolAt(r), c[2]>>>> :
                                c \in payload[msg][1].field_data}
                      ELSE {}
         IN  subscribe_data_parse(DictUpdate(data, found), Tail(msgs), r)

\* SubscribeData.process(), which has no await and runs in one piece: it
\* takes items with get_nowait while the queue is not empty; an item that is
\* None has no correlationIds and raises AttributeError, which leaves the
\* items behind it in the queue
SubscribeDataProcess(r) ==
    /\ req_handler[r] = SubscriptionHandlerId
    /\ LET q == msg_queue[r]
           k == FirstNone(q)
           consumed == IF k = 0 THEN q ELSE SubSeq(q, 1, k)
           left == IF k = 0 THEN <<>> ELSE SubSeq(q, k + 1, Len(q))
       IN  /\ msg_queue' = [msg_queue EXCEPT ![r] = left]
           /\ taken' = [taken EXCEPT ![r] = @ \o consumed]
           /\ last_process' = [req |-> r, buffered |-> q,
                               consumed |-> consumed, left |-> left,
                               data |-> IF k = 0
                                        THEN subscribe_data_parse({}, q, r)
                                        ELSE {},
                               raised |-> (k # 0)]
    /\ UNCHANGED <<dispatcher_vars, handler_vars, weight, service_name,
                   req_handler, send_pc, send_key, process_done, sent,
                   provider_vars, split_vars, stop_vars, parse_vars,
                   merge_vars, last_status, msg_corr, weight_vars, extra_vars>>

\* ------------------------------------------------------ specifications
InitPool ==
    /\ request_handlers = <<>>
    /\ num_requests = 0
    /\ last_choice = NoChoice
    /\ start_requested = [h \in HandlerIds |-> FALSE]
    /\ stop_requested = [h \in HandlerIds |-> FALSE]
    /\ session_started = [h \in HandlerIds |-> FALSE]
    /\ services = [h \in HandlerIds |-> {}]
    /\ open_calls = [h \in HandlerIds |-> [s \in Services |-> 0]]
    /\ current_requests = [h \in HandlerIds |-> <<>>]
    /\ num_keys = 0
    /\ weight = [r \in RequestIds |-> 0]
    /\ service_name = [r \in RequestIds |-> ""]
    /\ req_handler = [r \in RequestIds |-> 0]
    /\ send_pc = [r \in RequestIds |-> "none"]
    /\ send_key = [r \in RequestIds |-> 0]
    /\ msg_queue = [r \in RequestIds |-> <<>>]
    /\ taken = [r \in RequestIds |-> <<>>]
    /\ process_done = [r \in RequestIds |-> FALSE]
    /\ sent = [r \in RequestIds |-> <<>>]
    /\ ready = <<>>
    /\ provider_started = [h \in HandlerIds |-> FALSE]
    /\ provider_opened = [h \in HandlerIds |-> {}]
    /\ inflight = [h \in HandlerIds |-> {}]
    /\ num_messages = 0
    /\ last_call = NoCall

InitNoSplit ==
    /\ securities = <<>>
    /\ fields = <<>>
    /\ max_securities_per_request = 1
    /\ max_fields_per_request = 1
    /\ securities_chunks = <<>>
    /\ fields_chunks = <<>>
    /\ chunks = <<>>
    /\ split_pc = "idle"

InitStop ==
    /\ session_stopped = [h \in HandlerIds |-> FALSE]
    /\ provider_terminated = [h \in HandlerIds |-> FALSE]
    /\ stop_pc = "idle"
    /\ stop_awaited = {}

\* message m answers for one security with a value for each field
DefaultPayload ==
    [m \in 1..MaxMessages |->
        <<[security |-> SymbolAt(m), has_field_data |-> TRUE,
           field_data |-> {<<f, m>> : f \in Symbols},
           security_error |-> FALSE, field_exceptions |-> {}]>>]

InitProcess ==
    /\ data_frame = [r \in RequestIds |-> {}]
    /\ errors = [r \in RequestIds |-> EmptyErrors]
    /\ process_raised = [r \in RequestIds |-> FALSE]
    /\ parse_result = NoParse

InitNoParse ==
    /\ error_behaviour = "IGNORE"
    /\ payload = DefaultPayload
    /\ InitProcess
    /\ parse_pc = "idle"

InitNoStatus ==
    /\ last_status = NoStatus
    /\ last_process = NoProcess
    /\ msg_corr = [m \in 1..MaxMessages |-> <<>>]

InitNoWeight ==
    /\ start_date = 0
    /\ end_date = 0
    /\ historical_weight = 0
    /\ weight_pc = "idle"

NoLoad == [h |-> 0, value |-> 0, raised |-> FALSE]

NoFanout == [called |-> FALSE, chunks |-> 0, handlers |-> <<>>, idle |-> FALSE]

InitNoArray ==
    /\ array_field = <<>>
    /\ array_values = [raised |-> FALSE, values |-> <<>>]
    /\ array_pc = "idle"

InitNoId ==
    /\ security_id_type = "None"
    /\ security_name = <<>>
    /\ request_securities = <<>>
    /\ row_security_id = <<>>
    /\ id_pc = "idle"

InitNoTask ==
    /\ process_cancelled = [r \in RequestIds |-> FALSE]
    /\ load_pc = [h \in HandlerIds |-> "idle"]
    /\ load_table = [h \in HandlerIds |-> <<>>]
    /\ last_load = NoLoad
    /\ last_fanout = NoFanout

InitNoExtra == InitNoArray /\ InitNoId /\ InitNoTask

InitNoMerge ==
    /\ self_errors = EmptyErrors
    /\ other_errors = EmptyErrors
    /\ third_errors = EmptyErrors
    /\ new_errors = EmptyErrors
    /\ add_pc = "idle"
    /\ reference_errors = EmptyErrors
    /\ reference_pc = "idle"
    /\ historical_errors = EmptyErrors
    /\ historical_pc = "idle"

\* One handler under every composition of events: the requests of a query go
\* to the only session, which answers with events of 1..MaxEventLen messages
Init ==
    /\ max_sessions = 1
    /\ InitPool
    /\ InitNoSplit
    /\ InitStop
    /\ InitNoStatus
    /\ InitNoWeight
    /\ InitNoExtra
    /\ InitNoParse
    /\ InitNoMerge

Next ==
    \/ /\ num_requests < MaxRequests
       /\ Dispatch(1, "//blp/refdata")
    \/ \E r \in RequestIds : SendRegister(r)
    \/ \E r \in RequestIds : SendResume(r)
    \/ \E h \in HandlerIds : SessionStarted(h)
    \/ \E h \in HandlerIds, s \in Services : ServiceOpened(h, s)
    \/ \E h \in HandlerIds : PartialResponse(h)
    \/ \E h \in HandlerIds : Response(h)
    \/ \E h \in HandlerIds : StopSession(h)
    \/ RunCallback
    \/ \E r \in RequestIds : ProcessGet(r)

Spec == Init /\ [][Next]_vars

\* The pool under load: requests of every weight, sessions that answer each
\* request with one terminal RESPONSE message
InitPoolSpec ==
    /\ max_sessions \in 1..MaxSessionsBound
    /\ InitPool
    /\ InitNoSplit
    /\ InitStop
    /\ InitNoStatus
    /\ InitNoWeight
    /\ InitNoExtra
    /\ InitNoParse
    /\ InitNoMerge

SingleResponse(h) ==
    \E k \in inflight[h] :
        ResponseEvent(h, "RESPONSE",
                      <<[id |-> num_messages + 1, corr |-> <<k>>, err |-> FALSE]>>)

NextPool ==
    \/ /\ num_requests < MaxPoolRequests
       /\ \E w \in 0..MaxWeight : Dispatch(w, "//blp/refdata")
    \/ \E r \in RequestIds : SendRegister(r)
    \/ \E r \in RequestIds : SendResume(r)
    \/ \E h \in HandlerIds : SessionStarted(h)
    \/ \E h \in HandlerIds, s \in Services : ServiceOpened(h, s)
    \/ \E h \in HandlerIds : SingleResponse(h)
    \/ RunCallback

SpecPool == InitPoolSpec /\ [][NextPool]_vars

\* _split_requests on every securities / fields list and chunk size in bounds
InitSplit ==
    /\ max_sessions = 1
    /\ InitPool
    /\ securities \in SeqsUpTo(Symbols, MaxListLen)
    /\ fields \in SeqsUpTo(Symbols, MaxListLen)
    /\ max_securities_per_request \in 1..MaxChunkSize
    /\ max_fields_per_request \in 1..MaxChunkSize
    /\ securities_chunks = <<>>
    /\ fields_chunks = <<>>
    /\ chunks = <<>>
    /\ split_pc = "init"
    /\ InitStop
    /\ InitNoStatus
    /\ InitNoWeight
    /\ InitNoExtra
    /\ InitNoParse
    /\ InitNoMerge

NextSplit == SplitRequests

SpecSplit == InitSplit /\ [][NextSplit]_vars

\* The life of the sessions: requests for both services, stop() at any
\* moment, sessions that terminate once their stop was requested
InitLifecycle ==
    /\ max_sessions \in 1..MaxSessionsBound
    /\ InitPool
    /\ InitNoSplit
    /\ InitStop
    /\ InitNoStatus
    /\ InitNoWeight
    /\ InitNoExtra
    /\ InitNoParse
    /\ InitNoMerge

NextLifecycle ==
    \/ /\ num_requests < MaxRequests
       /\ \E s \in Services : Dispatch(1, s)
    \/ \E r \in RequestIds : SendRegister(r)
    \/ \E r \in RequestIds : SendResume(r)
    \/ \E h \in HandlerIds : SessionStarted(h)
    \/ \E h \in HandlerIds, s \in Services : ServiceOpened(h, s)
    \/ \E h \in HandlerIds : SingleResponse(h)
    \/ RunCallback
    \/ \E r \in RequestIds : ProcessGet(r)
    \/ Stop
    \/ \E h \in HandlerIds : SessionTerminated(h)
    \/ StopReturn
    \/ \E h \in HandlerIds, msg_name \in SessionStatusNames :
           SessionEvent(h, msg_name)
    \/ \E h \in HandlerIds, s \in Services : ServiceOpenFailure(h, s)

SpecLifecycle == InitLifecycle /\ [][NextLifecycle]_vars

\* Subscriptions: add_subscriber, market data events of 1..MaxEventLen
\* messages, reads of the subscriptions, stop() at any moment
InitSubscription ==
    /\ max_sessions = 1
    /\ InitPool
    /\ InitNoSplit
    /\ InitStop
    /\ InitNoStatus
    /\ InitNoWeight
    /\ InitNoExtra
    /\ InitNoParse
    /\ InitNoMerge

NextSubscription ==
    \/ /\ num_requests < MaxRequests
       /\ AddSubscriber
    \/ \E r \in RequestIds : Subscribe(r)
    \/ \E h \in HandlerIds : SessionStarted(h)
    \/ SubscriptionData
    \/ RunCallback
    \/ \E r \in RequestIds : SubscribeDataProcess(r)
    \/ Stop
    \/ \E h \in HandlerIds : SessionTerminated(h)
    \/ StopReturn

SpecSubscription == InitSubscription /\ [][NextSubscription]_vars

\* HistoricalDataRequest.weight on every securities / fields list and every
\* pair of dates in bounds
InitWeight ==
    /\ max_sessions = 1
    /\ InitPool
    /\ securities \in SeqsUpTo(Symbols, MaxListLen)
    /\ fields \in SeqsUpTo(Symbols, MaxListLen)
    /\ max_securities_per_request = 1
    /\ max_fields_per_request = 1
    /\ securities_chunks = <<>>
    /\ fields_chunks = <<>>
    /\ chunks = <<>>
    /\ split_pc = "idle"
    /\ InitStop
    /\ InitNoStatus
    /\ InitNoParse
    /\ InitNoMerge
    /\ InitNoExtra
    /\ start_date \in 0..MaxDays
    /\ end_date \in 0..MaxDays
    /\ historical_weight = 0
    /\ weight_pc = "init"

NextWeight == HistoricalWeight

SpecWeight == InitWeight /\ [][NextWeight]_vars

\* the entities a message can carry: with or without a fieldData element,
\* with or without securityError, with any set of field exceptions
SecurityDatas ==
    {sd \in [security : Symbols, has_field_data : BOOLEAN,
             field_data : SUBSET (Symbols \X {1}),
             security_error : BOOLEAN, field_exceptions : SUBSET Symbols] :
        sd.has_field_data \/ sd.field_data = {}}

\* One request answered by one RESPONSE message, for every entity the message
\* can carry and every error behaviour
InitParse ==
    /\ max_sessions = 1
    /\ InitPool
    /\ InitNoSplit
    /\ InitStop
    /\ InitNoStatus
    /\ InitNoWeight
    /\ InitNoExtra
    /\ InitNoMerge
    /\ error_behaviour \in ErrorBehaviours
    /\ \E sd \in SecurityDatas :
           payload = [DefaultPayload EXCEPT ![1] = <<sd>>]
    /\ InitProcess
    /\ parse_pc = "init"

NextParse ==
    \/ /\ num_requests = 0
       /\ Dispatch(1, "//blp/refdata")
    \/ \E r \in RequestIds : SendRegister(r)
    \/ \E r \in RequestIds : SendResume(r)
    \/ \E h \in HandlerIds : SessionStarted(h)
    \/ \E h \in HandlerIds, s \in Services : ServiceOpened(h, s)
    \/ \E h \in HandlerIds : SingleResponse(h)
    \/ RunCallback
    \/ \E r \in RequestIds : ProcessGet(r)
    \/ ParseErrors

SpecParse == InitParse /\ [][NextParse]_vars

\* the ErrorSets a chunk can report
ErrorSets ==
    {[invalid_securities |-> q, invalid_fields |-> d] :
        q \in SeqsUpTo(Symbols, MaxInvalid),
        d \in {{<<<<"a", "a">>, m>>} : m \in FieldMessages}
                  \cup {{}, {<<<<"a", "b">>, "Field not valid">>},
                        {<<<<"a", "a">>, "Field not valid">>,
                         <<<<"a", "b">>, "Field not valid">>}}}

\* The merges of ErrorSets: every pair of operands, and a third chunk result
InitMerge ==
    /\ max_sessions = 1
    /\ InitPool
    /\ InitNoSplit
    /\ InitStop
    /\ InitNoStatus
    /\ InitNoWeight
    /\ InitNoExtra
    /\ InitNoParse
    /\ self_errors \in ErrorSets
    /\ other_errors \in ErrorSets
    /\ third_errors \in {[invalid_securities |-> q, invalid_fields |-> {}] :
                            q \in {<<>>, <<"b">>}}
    /\ new_errors = EmptyErrors
    /\ add_pc = "init"
    /\ reference_errors = EmptyErrors
    /\ reference_pc = "init"
    /\ historical_errors = EmptyErrors
    /\ historical_pc = "init"

NextMerge ==
    \/ Add
    \/ GetReferenceDataMerge
    \/ GetHistoricalDataMerge

SpecMerge == InitMerge /\ [][NextMerge]_vars

\* ------------------------------------------------------------ the claims
\* index of the first zero of a list of loads
FirstFree(loads) ==
    CHOOSE i \in 1..Len(loads) :
        loads[i] = 0 /\ \A j \in 1..(i - 1) : loads[j] # 0

HasFree(loads) == \E i \in 1..Len(loads) : loads[i] = 0

\* C1: whenever the pool holds a handler with load zero, _choose_handler
\* returns the first such handler in pool order and leaves the pool list
\* unchanged, whatever the other loads and whether or not the pool is full
C1_FreeHandlerFirst ==
    (last_choice.called /\ HasFree(last_choice.loads_before)) =>
        /\ last_choice.ret =
               last_choice.pool_before[FirstFree(last_choice.loads_before)]
        /\ last_choice.pool_after = last_choice.pool_before
        /\ ~last_choice.created

\* a call that returned the free second handler of a full pool whose first
\* handler is loaded
C1_Witness ==
    /\ last_choice.called
    /\ Len(last_choice.pool_before) = max_sessions
    /\ Len(last_choice.pool_before) >= 2
    /\ last_choice.loads_before[1] > 0
    /\ last_choice.loads_before[2] = 0
    /\ last_choice.ret = last_choice.pool_before[2]

\* C2: the dispatcher never holds more request handlers than max_sessions
C2_PoolWithinMaxSessions == Len(request_handlers) <= max_sessions

\* a call on a full pool of busy handlers, which left the pool full
C2_Witness ==
    /\ last_choice.called
    /\ Len(last_choice.pool_before) = max_sessions
    /\ ~HasFree(last_choice.loads_before)
    /\ Len(request_handlers) = max_sessions

\* C3: on a full pool of busy handlers _choose_handler returns a handler of
\* minimal load, the first one in pool order on a tie, and creates none
C3_LeastLoadedFirst ==
    (/\ last_choice.called
     /\ Len(last_choice.pool_before) = max_sessions
     /\ ~HasFree(last_choice.loads_before)) =>
        /\ \E i \in 1..Len(last_choice.pool_before) :
               /\ last_choice.ret = last_choice.pool_before[i]
               /\ \A j \in 1..Len(last_choice.pool_before) :
                      last_choice.loads_before[i] <= last_choice.loads_before[j]
               /\ \A j \in 1..(i - 1) :
                      last_choice.loads_before[j] > last_choice.loads_before[i]
        /\ ~last_choice.created
        /\ last_choice.pool_after = last_choice.pool_before

\* a call on a full pool of two busy handlers with equal loads
C3_Witness ==
    /\ last_choice.called
    /\ max_sessions = 2
    /\ Len(last_choice.pool_before) = 2
    /\ last_choice.loads_before[1] > 0
    /\ last_choice.loads_before[1] = last_choice.loads_before[2]
    /\ last_choice.ret = last_choice.pool_before[1]

\* C4: with no free handler and room in the pool _choose_handler creates a
\* handler whose session start is requested, appends it to the pool and
\* returns it; it is none of the handlers the pool held before
C4_NewHandlerWhenRoom ==
    (/\ last_choice.called
     /\ ~HasFree(last_choice.loads_before)
     /\ Len(last_choice.pool_before) < max_sessions) =>
        /\ last_choice.created
        /\ last_choice.started_after
        /\ last_choice.pool_after =
               Append(last_choice.pool_before, last_choice.ret)
        /\ last_choice.ret \notin Range(last_choice.pool_before)

\* a call that added a second handler beside a busy one
C4_Witness ==
    /\ last_choice.called
    /\ Len(last_choice.pool_before) = 1
    /\ last_choice.loads_before[1] > 0
    /\ last_choice.created
    /\ Len(last_choice.pool_after) = 2

CeilDiv(n, c) == (n + c - 1) \div c

CountIn(lst, x) == Cardinality({i \in 1..Len(lst) : lst[i] = x})

\* how many times the sub-queries cover the pair (e, f)
Covered(e, f) ==
    SumSeq([k \in 1..Len(chunks) |->
               CountIn(chunks[k][1], e) * CountIn(chunks[k][2], f)])

\* C5: _split_requests yields ceil(N/Cs) * ceil(M/Cf) sub-queries which cover
\* every (entity, field) pair of the product exactly as often as the product
\* holds it: nothing omitted, nothing duplicated
C5_SplitCoversProduct ==
    split_pc = "done" =>
        /\ Len(chunks) =
               CeilDiv(Len(securities), max_securities_per_request)
                   * CeilDiv(Len(fields), max_fields_per_request)
        /\ \A e \in Symbols, f \in Symbols :
               Covered(e, f) = CountIn(securities, e) * CountIn(fields, f)

\* three securities and three fields in chunks of two: four sub-queries
C5_Witness ==
    /\ split_pc = "done"
    /\ Len(securities) = 3 /\ max_securities_per_request = 2
    /\ Len(fields) = 3 /\ max_fields_per_request = 2
    /\ Len(chunks) = 4
    /\ Len(chunks[4][1]) = 1 /\ Len(chunks[4][2]) = 1

RECURSIVE Concat(_)
Concat(lists) == IF lists = <<>> THEN <<>> ELSE Head(lists) \o Concat(Tail(lists))

WellChunked(lst, parts, size) ==
    /\ \A i \in 1..Len(parts) : Len(parts[i]) >= 1 /\ Len(parts[i]) <= size
    /\ \A i \in 1..(Len(parts) - 1) : Len(parts[i]) = size
    /\ Concat(parts) = lst

\* C6: the chunks of split_into_chunks are non-empty, at most chunk_size long,
\* all but the last exactly chunk_size long, and concatenate to the input; no
\* sub-query carries more than max_securities_per_request securities or
\* max_fields_per_request fields
C6_ChunksBounded ==
    split_pc = "done" =>
        /\ WellChunked(securities, securities_chunks, max_securities_per_request)
        /\ WellChunked(fields, fields_chunks, max_fields_per_request)
        /\ \A k \in 1..Len(chunks) :
               /\ Len(chunks[k][1]) <= max_securities_per_request
               /\ Len(chunks[k][2]) <= max_fields_per_request

\* a list of three cut in chunks of two: the last chunk is the shorter one
C6_Witness ==
    /\ split_pc = "done"
    /\ Len(securities) = 3 /\ max_securities_per_request = 2
    /\ Len(securities_chunks) = 2
    /\ Len(securities_chunks[2]) = 1
    /\ Len(fields) = 2 /\ max_fields_per_request = 1
    /\ Len(fields_chunks) = 2

Sentinels(r) == Cardinality({i \in 1..Len(sent[r]) : sent[r][i] = None})

Registered(r) ==
    \E h \in HandlerIds : \E i \in 1..Len(current_requests[h]) :
        current_requests[h][i][2] = r

\* C7: over any sequence of partial-response events, response events,
\* provider-error messages, close-outs and stop_session calls, the queue of
\* each Request is sent the sentinel None at most once
C7_SentinelAtMostOnce == \A r \in RequestIds : Sentinels(r) <= 1

\* C8: a key leaves the Correlation Table only together with exactly one
\* sentinel for its Request, and close-out sends a sentinel only to a Request
\* whose key it removes: no registered Request has been sent a sentinel, a
\* Request whose key was removed has been sent exactly one, and after a
\* close-out no key it addressed is left in the table
C8_RemovalPairsWithSentinel ==
    /\ \A r \in RequestIds : Registered(r) => Sentinels(r) = 0
    /\ \A r \in RequestIds :
           (send_key[r] # 0 /\ ~Registered(r)) => Sentinels(r) = 1
    /\ last_call.type # "none" =>
           last_call.addressed \cap Keys(current_requests[last_call.h]) = {}

\* the messages of an event that carry key k and no responseError, in order
DataFor(msgs, k) ==
    LET mine == SelectSeq(msgs, LAMBDA m : m.corr[1] = k /\ ~m.err)
    IN  [i \in 1..Len(mine) |-> mine[i].id]

\* C9: after a response event no key carried by a message of the event is
\* left in the Correlation Table, and each Request that was registered under
\* such a key has been sent every non-error message of the event addressed
\* to it, and then the sentinel
C9_ResponseClosesOut ==
    last_call.type = "RESPONSE" =>
        /\ \A i \in 1..Len(last_call.msgs) :
               last_call.msgs[i].corr[1]
                   \notin Keys(current_requests[last_call.h])
        /\ \A e \in Range(last_call.table_before) :
               (\E i \in 1..Len(last_call.msgs) :
                    last_call.msgs[i].corr[1] = e[1]) =>
                   PostsTo(last_call.posts, e[2]) =
                       Append(DataFor(last_call.msgs, e[1]), None)

\* the put_nowait callbacks for request r still waiting in the loop
PendingPuts(r) ==
    LET mine == SelectSeq(ready, LAMBDA cb : cb.op = "put" /\ cb.req = r)
    IN  [i \in 1..Len(mine) |-> mine[i].msg]

DataOf(items) == SelectSeq(items, LAMBDA m : m # None)

\* C10: for every Request, what process() has taken, what waits in its queue
\* and what waits in the loop are, in this order, exactly what the handler
\* sent to it, and the messages come in the order the session emitted them
\* (message ids count the emissions): no reordering, duplicate or loss
C10_HandoffKeepsOrder ==
    \A r \in RequestIds :
        /\ taken[r] \o msg_queue[r] \o PendingPuts(r) = sent[r]
        /\ \A i, j \in 1..Len(DataOf(taken[r])) :
               i < j => DataOf(taken[r])[i] < DataOf(taken[r])[j]

\* process() took the message of a partial response, then the message of the
\* response, then the sentinel
C10_Witness ==
    \E r \in RequestIds :
        /\ process_done[r]
        /\ taken[r] = <<1, 2, None>>
        /\ last_call.type = "RESPONSE"
        /\ Len(last_call.msgs) = 1

\* the request registered under key k in a table holding the key
RequestOf(table, k) == table[Lookup(table, k)][2]

\* C11: for every partial-response or response event that carries a
\* responseError message and whose messages all carry keys registered when
\* the event arrives: the handler returns without raising, no error message is
\* enqueued to a Request, and every Request keyed by an error message is closed
\* out (sentinel sent, key removed) -- also when a further message for the
\* same key follows the error message in the event
C11_ErrorClosesWithoutRaising ==
    (/\ last_call.type \in {"PARTIAL_RESPONSE", "RESPONSE"}
     /\ \E i \in 1..Len(last_call.msgs) : last_call.msgs[i].err
     /\ \A i \in 1..Len(last_call.msgs) :
            last_call.msgs[i].corr[1] \in Keys(last_call.table_before)) =>
        /\ ~last_call.raised
        /\ \A i \in 1..Len(last_call.msgs) :
               last_call.msgs[i].err =>
                   /\ \A j \in 1..Len(last_call.posts) :
                          last_call.posts[j][2] # last_call.msgs[i].id
                   /\ last_call.msgs[i].corr[1]
                          \notin Keys(current_requests[last_call.h])
                   /\ None \in Range(PostsTo(last_call.posts,
                                 RequestOf(last_call.table_before,
                                           last_call.msgs[i].corr[1])))

\* C12: a wire request is submitted (send_requests is past sendRequest, or the
\* session owes the key an answer) only when the handler's session_started is
\* set and the event of the Request's own service is set; a service event is
\* set only after a ServiceOpened naming that service was processed, so a
\* ServiceOpened for another service releases nothing
C12_SendAfterSignals ==
    /\ \A r \in RequestIds :
           (req_handler[r] # 0 /\
            (send_pc[r] = "done" \/ send_key[r] \in inflight[req_handler[r]])) =>
               /\ session_started[req_handler[r]]
               /\ service_name[r] \in services[req_handler[r]]
    /\ \A h \in HandlerIds : services[h] \subseteq provider_opened[h]
    /\ \A h \in HandlerIds : session_started[h] => provider_started[h]

\* one Request was sent on its opened service while another Request of the
\* same handler still waits for a service that is not open
C12_Witness ==
    \E r1, r2 \in RequestIds :
        /\ req_handler[r1] # 0
        /\ req_handler[r1] = req_handler[r2]
        /\ service_name[r1] # service_name[r2]
        /\ send_pc[r1] = "done"
        /\ send_pc[r2] = "wait_service"
        /\ service_name[r1] \in services[req_handler[r1]]
        /\ service_name[r2] \notin services[req_handler[r2]]

Submitted == {r \in RequestIds : send_key[r] # 0}

C14_StopSessionClosesAll ==
    last_call.type = "stop_session" =>
        /\ ~last_call.raised
        /\ \A e \in Range(last_call.table_before) :
               /\ None \in Range(PostsTo(last_call.posts, e[2]))
               /\ e[1] \notin Keys(current_requests[last_call.h])
        /\ stop_requested[last_call.h]

\* C15: AsyncBloomberg.stop() calls stop_session on every request handler
\* (so the stop of every session is requested), does not end with an
\* exception, whether or not Requests are still registered when it is called,
\* and returns only when the session_stopped of every handler it stopped is set
C15_StopStopsEveryHandler ==
    /\ stop_pc # "raised"
    /\ stop_pc \in {"waiting", "returned"} =>
           \A h \in stop_awaited : stop_requested[h]
    /\ stop_pc = "returned" =>
           \A h \in stop_awaited : session_stopped[h]

DictKeys(d) == {item[1] : item \in d}

\* the ErrorSet e is the merge of the chunks' ErrorSets: its invalid
\* securities are those of all chunks, its invalid fields are the keys of all
\* chunks, each with the value of the last chunk that reports the key
MergesChunks(e, results) ==
    /\ Range(e.invalid_securities) =
           UNION {Range(results[i].invalid_securities) : i \in 1..Len(results)}
    /\ DictKeys(e.invalid_fields) =
           UNION {DictKeys(results[i].invalid_fields) : i \in 1..Len(results)}
    /\ \A item \in e.invalid_fields :
           \E i \in 1..Len(results) :
               /\ item \in results[i].invalid_fields
               /\ \A j \in (i + 1)..Len(results) :
                      item[1] \notin DictKeys(results[j].invalid_fields)

\* C16: the ErrorSet get_reference_data returns and the ErrorSet
\* get_historical_data returns are each the merge of the ErrorSets of all
\* chunk process() tasks: every invalid entity and every (entity, field) error
\* a chunk reported is in it
C16_ReturnedErrorsAreMerged ==
    /\ reference_pc = "done" => MergesChunks(reference_errors, requests_result)
    /\ historical_pc = "done" =>
           MergesChunks(historical_errors, requests_result)

SecuritySet(e) == Range(e.invalid_securities)

\* what holds of the result of self_errors + other_errors
MergeRule ==
    /\ SecuritySet(new_errors) =
           SecuritySet(self_errors) \cup SecuritySet(other_errors)
    /\ Len(new_errors.invalid_securities) =
           Cardinality(SecuritySet(new_errors))
    /\ DictKeys(new_errors.invalid_fields) =
           DictKeys(self_errors.invalid_fields)
               \cup DictKeys(other_errors.invalid_fields)
    /\ other_errors.invalid_fields \subseteq new_errors.invalid_fields
    /\ \A item \in self_errors.invalid_fields :
           item[1] \notin DictKeys(other_errors.invalid_fields) =>
               item \in new_errors.invalid_fields
    /\ \A x \in BloombergErrors_add(other_errors, self_errors) :
           SecuritySet(x) = SecuritySet(new_errors)
    /\ \A y \in BloombergErrors_add(new_errors, third_errors),
          u \in BloombergErrors_add(other_errors, third_errors) :
           \A v \in BloombergErrors_add(self_errors, u) :
               SecuritySet(y) = SecuritySet(v)

\* C17: BloombergErrors merge a + b: the invalid entities of the result are
\* the union of both operands' without duplicates (as a set the merge is
\* commutative and associative), the field-error mapping holds every key of
\* either operand, with b's value on a key both hold, and no step modifies
\* an operand
C17_MergeRule ==
    /\ [](add_pc = "done" => MergeRule)
    /\ [][self_errors' = self_errors /\ other_errors' = other_errors]_vars

\* both operands report the security "a" and the field <<"a", "a">>, with
\* different messages; the result holds the right operand's message
C17_Witness ==
    /\ add_pc = "done"
    /\ "a" \in SecuritySet(self_errors) \cap SecuritySet(other_errors)
    /\ "b" \in SecuritySet(self_errors)
    /\ self_errors.invalid_fields = {<<<<"a", "a">>, "Field not valid">>}
    /\ other_errors.invalid_fields =
           {<<<<"a", "a">>, "Field not applicable to security">>}
    /\ new_errors.invalid_fields = other_errors.invalid_fields
    /\ Len(new_errors.invalid_securities) = 2

\* the items sent to a queue before the first sentinel
RECURSIVE BeforeSentinel(_)
BeforeSentinel(items) ==
    IF items = <<>> \/ Head(items) = None THEN <<>>
    ELSE <<Head(items)>> \o BeforeSentinel(Tail(items))

\* the cells the parse of message m yields, one row per entity
CellsOf(m) ==
    UNION {parse_security_data(payload[m][i]) : i \in 1..Len(payload[m])}

\* the row-wise union of the parses of a list of messages (a cell parsed
\* again by a later message holds the later value)
UnionOfParses(msgs) ==
    {cell \in UNION {CellsOf(msgs[i]) : i \in 1..Len(msgs)} :
        \E i \in 1..Len(msgs) :
            /\ cell \in CellsOf(msgs[i])
            /\ \A j \in (i + 1)..Len(msgs) :
                   \A c \in CellsOf(msgs[j]) : c[1] # cell[1]}

\* C18: process() has returned only if the last item it took is the first
\* sentinel of its queue, and then its table is the row-wise union of the
\* parses of exactly the messages enqueued before that sentinel, however the
\* provider grouped them into partial-response and response events; nothing
\* enqueued after the sentinel contributes
C18_ProcessReturnsUnionBeforeSentinel ==
    \A r \in RequestIds :
        (process_done[r] /\ ~process_raised[r]) =>
            /\ taken[r] = Append(BeforeSentinel(sent[r]), None)
            /\ data_frame[r] = UnionOfParses(BeforeSentinel(sent[r]))

\* process() returned the rows of two messages: the first came in a partial
\* response, the second in the response that closed the Request out
C18_Witness ==
    \E r \in RequestIds :
        /\ process_done[r]
        /\ taken[r] = <<1, 2, None>>
        /\ Cardinality(data_frame[r]) = 4
        /\ <<<<"a", "a">>, 1>> \in data_frame[r]
        /\ <<<<"b", "b">>, 2>> \in data_frame[r]
        /\ last_call.type = "RESPONSE"
        /\ Len(last_call.msgs) = 1
        /\ last_call.msgs[1].id = 2

\* the cells of a table that belong to the row of a security
RowOf(df, security) == {cell \in df : cell[1][1] = security}

\* C19: when process() has consumed a message whose entity carries the
\* securityError marker and no field data: under RETURN process() does not
\* raise, and when it returns on the sentinel the entity is in the invalid
\* set of its ErrorSet and has contributed no data; under RAISE process()
\* raises and never returns
C19_InvalidSecurityEntity ==
    LET security_data == payload[1][1]
    IN  (/\ security_data.security_error
         /\ security_data.field_data = {}
         /\ 1 \in Range(taken[1])) =>
            /\ error_behaviour = "RETURN" =>
                   /\ ~process_raised[1]
                   /\ process_done[1] =>
                          /\ security_data.security
                                 \in Range(errors[1].invalid_securities)
                          /\ RowOf(data_frame[1], security_data.security) = {}
            /\ error_behaviour = "RAISE" =>
                   process_raised[1] /\ ~process_done[1]

\* C20: _parse_errors classifies one entity by the configured policy: under
\* IGNORE it returns no ErrorSet whatever markers the entity carries; under
\* RETURN it returns an ErrorSet holding the entity in the invalid set iff
\* the entity carries securityError, and one (entity, field) item per field
\* exception; under RAISE it raises iff the entity carries at least one
\* error and returns an empty ErrorSet otherwise
C20_ErrorPolicy ==
    parse_pc = "done" =>
        LET security_data == payload[1][1]
            has_error == \/ security_data.security_error
                         \/ security_data.field_exceptions # {}
        IN  /\ error_behaviour = "IGNORE" =>
                   parse_result.none /\ ~parse_result.raised
            /\ error_behaviour = "RETURN" =>
                   /\ ~parse_result.raised /\ ~parse_result.none
                   /\ Range(parse_result.errors.invalid_securities) =
                          IF security_data.security_error
                          THEN {security_data.security} ELSE {}
                   /\ DictKeys(parse_result.errors.invalid_fields) =
                          {<<security_data.security, f>> :
                              f \in security_data.field_exceptions}
            /\ error_behaviour = "RAISE" =>
                   /\ parse_result.raised <=> has_error
                   /\ ~has_error =>
                          /\ ~parse_result.none
                          /\ parse_result.errors = EmptyErrors


\* a callback `op` for handler h is posted and has not run yet
Pending(op, h) == \E i \in 1..Len(ready) : ready[i].op = op /\ ready[i].h = h

\* the signals of every handler but h, and the service signals, are unchanged
SessionSignalStep(h, cb) ==
    /\ ready # <<>>
    /\ Head(ready) = cb
    /\ ready' = Tail(ready)
    /\ services' = services
    /\ \A g \in HandlerIds \ {h} :
           /\ session_started'[g] = session_started[g]
           /\ session_stopped'[g] = session_stopped[g]

\* C21: a SessionStarted message makes _session_handler post exactly the set
\* of the handler's session_started signal, a SessionTerminated message
\* exactly the set of its session_stopped signal, without raising; the signal
\* is then set or its set is waiting in the loop, whatever thread ran the
\* handler; a signal is set only by the callback of its own message, which
\* leaves the other signal as it was, and a set signal is never cleared
C21_SessionSignals ==
    /\ [](\A h \in HandlerIds :
            /\ (last_status.type = "SESSION_STATUS" /\ last_status.h = h
                    /\ last_status.name = "SessionStarted")
                   => (last_status.posts = <<SetStartedCallback(h)>>
                          /\ ~last_status.raised)
            /\ (last_status.type = "SESSION_STATUS" /\ last_status.h = h
                    /\ last_status.name = "SessionTerminated")
                   => (last_status.posts = <<SetStoppedCallback(h)>>
                          /\ ~last_status.raised)
            /\ provider_started[h]
                   => (session_started[h] \/ Pending("set_started", h))
            /\ provider_terminated[h]
                   => (session_stopped[h] \/ Pending("set_stopped", h))
            /\ session_started[h] => provider_started[h]
            /\ session_stopped[h] => provider_terminated[h])
    /\ [][\A h \in HandlerIds :
            /\ session_started[h] => session_started'[h]
            /\ session_stopped[h] => session_stopped'[h]
            /\ session_started'[h] # session_started[h]
                   => (SessionSignalStep(h, SetStartedCallback(h))
                          /\ session_stopped'[h] = session_stopped[h])
            /\ session_stopped'[h] # session_stopped[h]
                   => (SessionSignalStep(h, SetStoppedCallback(h))
                          /\ session_started'[h] = session_started[h])]_vars

\* a handler whose session was started and terminated, both callbacks run
C21_Witness ==
    \E h \in HandlerIds :
        /\ session_started[h]
        /\ session_stopped[h]
        /\ provider_started[h]
        /\ provider_terminated[h]

\* C22: once _session_handler has handled a SessionConnectionDown message,
\* the handler's session_stopped signal is set or its set is waiting in the
\* loop, so that a caller awaiting the signal is released
C22_ConnectionDownSetsStopped ==
    \A h \in HandlerIds :
        (last_status.type = "SESSION_STATUS" /\ last_status.h = h
            /\ last_status.name = "SessionConnectionDown")
           => (session_stopped[h] \/ Pending("set_stopped", h))

\* the last status event made its handler raise without posting a callback
RaisedWithoutSignal == last_status.raised /\ last_status.posts = <<>>

\* C23 as claimed: a session-status message other than SessionStarted,
\* SessionTerminated and SessionConnectionDown, and a service-status message
\* other than ServiceOpened, makes the handler raise and post no signal
C23_OtherPayloadRaises ==
    /\ (last_status.type = "SESSION_STATUS"
           /\ last_status.name \notin {"SessionStarted", "SessionTerminated",
                                       "SessionConnectionDown"})
          => RaisedWithoutSignal
    /\ (last_status.type = "SERVICE_STATUS"
           /\ last_status.name # "ServiceOpened")
          => RaisedWithoutSignal

\* the session-status payloads _session_handler accepts
AcceptedSessionStatus == {"SessionStarted", "SessionTerminated",
                          "SessionConnectionUp", "SessionConnectionDown",
                          "SessionClusterInfo", "SessionClusterUpdate"}

\* C23 amended: a session-status message outside the accepted payloads
\* (SessionStarted, SessionTerminated, SessionConnectionUp,
\* SessionConnectionDown, SessionClusterInfo, SessionClusterUpdate) and a
\* service-status message other than ServiceOpened make the handler raise in
\* the calling thread; the step posts no callback and changes no session or
\* service signal
C23_UnknownPayloadRaises ==
    /\ []((last_status.type = "SESSION_STATUS"
              /\ last_status.name \notin AcceptedSessionStatus)
             => RaisedWithoutSignal)
    /\ []((last_status.type = "SERVICE_STATUS"
              /\ last_status.name # "ServiceOpened")
             => RaisedWithoutSignal)
    /\ [][(last_status' # last_status /\ last_status'.raised)
             => /\ ready' = ready
                /\ session_started' = session_started
                /\ session_stopped' = session_stopped
                /\ services' = services]_vars

\* a session that answered its start with SessionStartupFailure
C23_Witness ==
    /\ last_status.type = "SESSION_STATUS"
    /\ last_status.name = "SessionStartupFailure"
    /\ last_status.raised
    /\ ~session_started[last_status.h]

\* the set of service s's event of handler h is posted and has not run yet
PendingService(h, s) ==
    \E i \in 1..Len(ready) : ready[i] = SetServiceCallback(h, s)

\* C24: a ServiceOpened message for service S makes _service_handler post
\* exactly the set of S's event of that handler, from whatever thread; S's
\* event is then set or its set is waiting in the loop; an event is set only
\* by the callback of its own message, and that step leaves the events of the
\* other services, the events of the other handlers and both session signals
\* of every handler as they were
C24_ServiceOpenedSetsOnlyItsSignal ==
    /\ []((last_status.type = "SERVICE_STATUS"
              /\ last_status.name = "ServiceOpened")
             => (last_status.posts = <<SetServiceCallback(last_status.h,
                                                          last_status.service)>>
                    /\ ~last_status.raised))
    /\ [](\A h \in HandlerIds, s \in Services :
             /\ s \in provider_opened[h]
                   => (s \in services[h] \/ PendingService(h, s))
             /\ s \in services[h] => s \in provider_opened[h])
    /\ [][\A h \in HandlerIds :
             services'[h] # services[h]
                => \E s \in Services :
                      /\ ready # <<>>
                      /\ Head(ready) = SetServiceCallback(h, s)
                      /\ services'[h] = services[h] \cup {s}
                      /\ \A g \in HandlerIds \ {h} : services'[g] = services[g]
                      /\ session_started' = session_started
                      /\ session_stopped' = session_stopped]_vars

\* a handler asked for both services whose session opened one of them
C24_Witness ==
    \E h \in HandlerIds :
        /\ \A s \in Services : open_calls[h][s] > 0
        /\ provider_opened[h] = {"//blp/refdata"}
        /\ services[h] = {"//blp/refdata"}

\* the sum of w over the members of a set of requests
RECURSIVE SetSum(_, _)
SetSum(S, w) ==
    IF S = {} THEN 0
    ELSE LET x == CHOOSE y \in S : TRUE
         IN  w[x] + SetSum(S \ {x}, w)

\* the requests held by a correlation table
InTable(table) == {table[i][2] : i \in 1..Len(table)}

\* C25: a handler's current_load is the sum of the weights of exactly the
\* requests in its correlation table; a step changes it by the weights of the
\* requests it registers minus the weights of those it closes out; and the
\* loads _choose_handler balances on are these sums at the time of the call
C25_LoadIsSumOfRegisteredWeights ==
    /\ [](\A h \in HandlerIds :
             current_load(current_requests[h], weight)
                = SetSum(InTable(current_requests[h]), weight))
    /\ [][\A h \in HandlerIds :
             current_load(current_requests'[h], weight')
                = current_load(current_requests[h], weight)
                  + SetSum(InTable(current_requests'[h])
                              \ InTable(current_requests[h]), weight')
                  - SetSum(InTable(current_requests[h])
                              \ InTable(current_requests'[h]), weight)]_vars
    /\ [][num_requests' # num_requests
             => last_choice'.loads_before
                   = [i \in 1..Len(request_handlers) |->
                         SetSum(InTable(current_requests[request_handlers[i]]),
                                weight)]]_vars

\* a handler that holds a request of weight 2 after another request of
\* positive weight was closed out
C25_Witness ==
    \E h \in HandlerIds, r \in RequestIds, q \in RequestIds :
        /\ r \in InTable(current_requests[h])
        /\ weight[r] = 2
        /\ current_load(current_requests[h], weight) = 2
        /\ req_handler[q] = h
        /\ send_key[q] # 0
        /\ weight[q] > 0
        /\ q \notin InTable(current_requests[h])

\* C26: _subscriber_data_handler sends every message of a subscription-data
\* event exactly once to every subscription registered when the event
\* arrives and to no other, whatever correlation ids the message carries; the
\* step posts one put per send and leaves the table as it was; and what was
\* sent to a subscription is what it has taken, what waits in its queue and
\* what waits in the loop, in this order
C26_DataToEverySubscription ==
    /\ [](last_call.type = "SUBSCRIPTION_DATA"
             => /\ ~last_call.raised
                /\ \A i \in 1..Len(last_call.msgs), r \in RequestIds :
                      CountIn(PostsTo(last_call.posts, r), last_call.msgs[i].id)
                         = IF r \in InTable(last_call.table_before)
                           THEN 1 ELSE 0)
    /\ [](\A r \in RequestIds :
             req_handler[r] = SubscriptionHandlerId
                => sent[r] = taken[r] \o msg_queue[r] \o PendingPuts(r))
    /\ [][(last_call' # last_call /\ last_call'.type = "SUBSCRIPTION_DATA")
             => /\ current_requests' = current_requests
                /\ Len(ready') = Len(ready) + Len(last_call'.posts)]_vars

\* an event of two messages, the first carrying only the id of the second
\* subscription, reached both registered subscriptions
C26_Witness ==
    /\ last_call.type = "SUBSCRIPTION_DATA"
    /\ Len(last_call.msgs) = 2
    /\ last_call.msgs[1].corr = <<2>>
    /\ Len(last_call.table_before) = 2
    /\ msg_queue[1] = <<1, 2>>
    /\ msg_queue[2] = <<1, 2>>

\* C27: a call of a subscription's process() returns without raising, has
\* consumed exactly the items that were buffered when it was called and left
\* the queue empty, and returns an empty table when nothing was buffered
C27_ProcessDrainsQueue ==
    last_process.req # 0
       => /\ ~last_process.raised
          /\ last_process.consumed = last_process.buffered
          /\ last_process.left = <<>>
          /\ (last_process.buffered = <<>> => last_process.data = {})

\* C28: the weight of a HistoricalDataRequest is the number of its securities
\* times the number of its fields times the days of its date range, both end
\* days counted (end - start + 1), hence at least securities times fields
\* whenever start <= end
C28_HistoricalWeightInclusive ==
    weight_pc = "done"
       => /\ historical_weight
                = Len(securities) * Len(fields) * (end_date - start_date + 1)
          /\ start_date <= end_date
                => historical_weight >= Len(securities) * Len(fields)

\* queue a is what is left of queue b after some gets
LeftOf(a, b) == \E k \in 0..Len(b) : a = SubSeq(b, k + 1, Len(b))

\* the step runs the oldest posted callback, which is cb
RunsCallback(cb) == ready # <<>> /\ Head(ready) = cb /\ ready' = Tail(ready)

\* C29: a request's queue gets an item, and a session_started, session_stopped
\* or service signal gets set, only in a step of the loop that runs the
\* callback posted for exactly that write; a step in which a provider event
\* posts callbacks changes no queue and no signal
C29_WritesOnlyByPostedCallbacks ==
    [][/\ \A r \in RequestIds :
             ~LeftOf(msg_queue'[r], msg_queue[r])
                => \E m \in 0..MaxMessages :
                      /\ RunsCallback(PutCallback(r, m))
                      /\ msg_queue'[r] = Append(msg_queue[r], m)
       /\ \A h \in HandlerIds :
             /\ session_started'[h] # session_started[h]
                   => RunsCallback(SetStartedCallback(h))
             /\ session_stopped'[h] # session_stopped[h]
                   => RunsCallback(SetStoppedCallback(h))
             /\ services'[h] # services[h]
                   => \E s \in Services : RunsCallback(SetServiceCallback(h, s))
       /\ Len(ready') > Len(ready)
             => /\ \A r \in RequestIds :
                      LeftOf(msg_queue'[r], msg_queue[r])
                /\ session_started' = session_started
                /\ session_stopped' = session_stopped
                /\ services' = services]_vars

\* a request that was answered through the loop on a session that was
\* started, opened its service and was stopped, every callback run
C29_Witness ==
    \E r \in RequestIds :
        /\ req_handler[r] # 0
        /\ Len(taken[r]) + Len(msg_queue[r]) = 2
        /\ session_started[req_handler[r]]
        /\ services[req_handler[r]] # {}
        /\ session_stopped[req_handler[r]]
        /\ ready = <<>>

\* C30: once stop() has returned, the handler _choose_handler gives a query
\* is never one whose session was asked to stop, and no request is sent on a
\* session that was asked to stop
C30_NoStoppedHandlerAfterStop ==
    [][stop_pc = "returned"
          => /\ num_requests' # num_requests
                   => ~stop_requested[last_choice'.ret]
             /\ \A h \in HandlerIds :
                   inflight'[h] # inflight[h] /\ inflight[h] \subseteq inflight'[h]
                      => ~stop_requested[h]]_vars

\* ---------------------------------------------------------------------
\* Bulk fields: ReferenceDataRequest._parse_array_field
\* ---------------------------------------------------------------------

MaxRecords == 3           \* most records of a bulk field explored

\* the sub-element names one record of a bulk field can carry, in order
RecordShapes == {<<>>, <<"a">>, <<"b">>, <<"a", "b">>, <<"b", "a">>}

\* elem.elements() of record i: <<name, value>> pairs, every value distinct
RecordElements(shape, i) ==
    [k \in 1..Len(shape) |-> <<shape[k], 10 * i + k>>]

\* field.values() for a sequence of record shapes
ArrayField(shapes) == [i \in 1..Len(shapes) |-> RecordElements(shapes[i], i)]

\* a per-record mapping {name: value}, and a bare scalar, as list entries
Mapping(items) == [scalar |-> FALSE, value |-> 0, items |-> items]
Scalar(v) == [scalar |-> TRUE, value |-> v, items |-> <<>>]

\* _parse_array_field: one mapping per record; when the list is not empty
\* and its FIRST mapping has one entry, every mapping is replaced by its
\* first value (IndexError on a mapping without entries)
parse_array_field(field) ==
    IF field # <<>> /\ Len(field[1]) = 1
    THEN IF \E i \in 1..Len(field) : field[i] = <<>>
         THEN [raised |-> TRUE, values |-> <<>>]
         ELSE [raised |-> FALSE,
               values |-> [i \in 1..Len(field) |-> Scalar(field[i][1][2])]]
    ELSE [raised |-> FALSE,
          values |-> [i \in 1..Len(field) |-> Mapping(field[i])]]

ParseArrayField ==
    /\ array_pc = "init"
    /\ array_values' = parse_array_field(array_field)
    /\ array_pc' = "done"
    /\ UNCHANGED <<dispatcher_vars, handler_vars, request_vars, provider_vars,
                   split_vars, stop_vars, parse_vars, merge_vars, status_vars,
                   weight_vars, array_field, id_vars, task_vars>>

InitArray ==
    /\ max_sessions = 1
    /\ InitPool
    /\ InitNoSplit
    /\ InitStop
    /\ InitNoStatus
    /\ InitNoParse
    /\ InitNoMerge
    /\ InitNoWeight
    /\ InitNoId
    /\ InitNoTask
    /\ array_field \in {ArrayField(shapes) :
                            shapes \in SeqsUpTo(RecordShapes, MaxRecords)}
    /\ array_values = [raised |-> FALSE, values |-> <<>>]
    /\ array_pc = "init"

NextArray == ParseArrayField

SpecArray == InitArray /\ [][NextArray]_vars

\* C31: a bulk array parses to a flat list of scalars when every record has
\* exactly one field and to a list of per-record mappings otherwise (also
\* when only the first record has one field); an empty array gives an
\* empty list.
C31_ArrayShapeByAllRecords ==
    array_pc = "done" =>
        /\ ~array_values.raised
        /\ array_values.values =
               IF \A i \in 1..Len(array_field) : Len(array_field[i]) = 1
               THEN [i \in 1..Len(array_field) |-> Scalar(array_field[i][1][2])]
               ELSE [i \in 1..Len(array_field) |-> Mapping(array_field[i])]

\* ---------------------------------------------------------------------
\* Security id types: SecurityIdType, create() and the row index
\* ---------------------------------------------------------------------

MaxNameLen == 2           \* longest security identifier explored

\* SecurityIdType member -> its value, as characters
SecurityIdTypeValue ==
    [TICKER |-> <<"/", "t", "i", "c", "k", "e", "r", "/">>,
     ISIN |-> <<"/", "i", "s", "i", "n", "/">>,
     CUSIP |-> <<"/", "c", "u", "s", "i", "p", "/">>,
     SEDOL |-> <<"/", "s", "e", "d", "o", "l", "/">>,
     BL_SECURITY_IDENTIFIER |-> <<"/", "b", "s", "i", "d", "/">>,
     BL_SECURITY_SYMBOL |-> <<"/", "b", "s", "y", "m", "/">>,
     BL_UNIQUE_IDENTIFIER |-> <<"/", "b", "u", "i", "d", "/">>,
     BL_GLOBAL_IDENTIFIER |-> <<"/", "b", "b", "g", "i", "d">>]

SecurityIdTypes == DOMAIN SecurityIdTypeValue

\* SecurityIdType.add_type: self.value + security_name
add_type(type, name) == SecurityIdTypeValue[type] \o name

\* SecurityIdType.remove_type: security_name[len(self.value):]
remove_type(type, name) ==
    SubSeq(name, Len(SecurityIdTypeValue[type]) + 1, Len(name))

\* ReferenceDataRequest.create: add_type is called and its result dropped;
\* the name itself is appended to the "securities" element
Create ==
    /\ id_pc = "init"
    /\ LET typed == IF security_id_type # "None"
                    THEN add_type(security_id_type, security_name)
                    ELSE security_name
       IN request_securities' = <<security_name>>
    /\ id_pc' = "created"
    /\ UNCHANGED <<dispatcher_vars, handler_vars, request_vars, provider_vars,
                   split_vars, stop_vars, parse_vars, merge_vars, status_vars,
                   weight_vars, array_vars, security_id_type, security_name,
                   row_security_id, task_vars>>

\* _get_security_id_from_security_data on the securityData the provider
\* returns for the request: its "security" is the identifier as sent
GetSecurityId ==
    /\ id_pc = "created"
    /\ LET security == request_securities[1]
       IN row_security_id' = IF security_id_type # "None"
                             THEN remove_type(security_id_type, security)
                             ELSE security
    /\ id_pc' = "done"
    /\ UNCHANGED <<dispatcher_vars, handler_vars, request_vars, provider_vars,
                   split_vars, stop_vars, parse_vars, merge_vars, status_vars,
                   weight_vars, array_vars, security_id_type, security_name,
                   request_securities, task_vars>>

InitId ==
    /\ max_sessions = 1
    /\ InitPool
    /\ InitNoSplit
    /\ InitStop
    /\ InitNoStatus
    /\ InitNoParse
    /\ InitNoMerge
    /\ InitNoWeight
    /\ InitNoArray
    /\ InitNoTask
    /\ security_id_type \in SecurityIdTypes \cup {"None"}
    /\ security_name \in SeqsUpTo(Symbols, MaxNameLen)
    /\ request_securities = <<>>
    /\ row_security_id = <<>>
    /\ id_pc = "init"

NextId == Create \/ GetSecurityId

SpecId == InitId /\ [][NextId]_vars

\* C32: with an id type configured create() sends each identifier with the
\* type's prefix prepended and process() strips it again, so that
\* remove_type(add_type(x)) = x and the row index is the identifier the
\* caller gave; without an id type the identifier passes unchanged.
C32_IdTypeRoundTrip ==
    /\ id_pc # "init" =>
           request_securities =
               IF security_id_type # "None"
               THEN <<add_type(security_id_type, security_name)>>
               ELSE <<security_name>>
    /\ security_id_type # "None" =>
           remove_type(security_id_type,
                       add_type(security_id_type, security_name))
               = security_name
    /\ id_pc = "done" => row_security_id = security_name

\* C33: service opening is memoized per service name: for one handler and
\* one service name openServiceAsync is issued at most once, however many
\* requests are submitted before or after the service-opened event.
C33_OpenServiceAtMostOnce ==
    \A h \in HandlerIds : \A s \in Services : open_calls[h][s] <= 1

\* ---------------------------------------------------------------------
\* A process() task that ends early: cancelled, or left by an exception
\* ---------------------------------------------------------------------

\* CancelProcess that also drops the request's keys from its handler's table
CancelProcessUnregister(r) ==
    /\ req_handler[r] # 0
    /\ ~process_done[r]
    /\ ~process_raised[r]
    /\ ~process_cancelled[r]
    /\ process_cancelled' = [process_cancelled EXCEPT ![r] = TRUE]
    /\ current_requests' = [current_requests EXCEPT ![req_handler[r]] =
                               SelectSeq(@, LAMBDA e : e[2] # r)]
    /\ UNCHANGED <<dispatcher_vars, start_requested, stop_requested,
                   session_started, services, open_calls, num_keys,
                   request_vars, provider_vars,
                   split_vars, stop_vars, parse_vars, merge_vars, status_vars,
                   weight_vars, array_vars, id_vars, load_pc, load_table,
                   last_load, last_fanout>>

\* the task running request.process() is cancelled while it waits in
\* _msg_queue.get(): CancelledError leaves the coroutine; the request, its
\* queue and the handler are not told
CancelProcess(r) ==
    /\ req_handler[r] # 0
    /\ ~process_done[r]
    /\ ~process_raised[r]
    /\ ~process_cancelled[r]
    /\ process_cancelled' = [process_cancelled EXCEPT ![r] = TRUE]
    /\ UNCHANGED <<dispatcher_vars, handler_vars, request_vars, provider_vars,
                   split_vars, stop_vars, parse_vars, merge_vars, status_vars,
                   weight_vars, array_vars, id_vars, load_pc, load_table,
                   last_load, last_fanout>>

\* the first message carries a security error, which process() raises on
\* under ErrorBehaviour.RAISE
RaisingPayload ==
    [DefaultPayload EXCEPT ![1] =
        <<[security |-> "a", has_field_data |-> TRUE, field_data |-> {},
           security_error |-> TRUE, field_exceptions |-> {}]>>]

InitTask ==
    /\ max_sessions = 1
    /\ InitPool
    /\ InitNoSplit
    /\ InitStop
    /\ InitNoStatus
    /\ InitNoWeight
    /\ InitNoExtra
    /\ InitNoMerge
    /\ error_behaviour = "RAISE"
    /\ payload = RaisingPayload
    /\ InitProcess
    /\ parse_pc = "idle"

\* one request, every event the session can emit for it, stop_session, and
\* the cancellation of its process() task
NextTask ==
    \/ /\ num_requests = 0
       /\ Dispatch(1, "//blp/refdata")
    \/ \E r \in RequestIds : SendRegister(r)
    \/ \E r \in RequestIds : SendResume(r)
    \/ \E h \in HandlerIds : SessionStarted(h)
    \/ \E h \in HandlerIds, s \in Services : ServiceOpened(h, s)
    \/ \E h \in HandlerIds : PartialResponse(h)
    \/ \E h \in HandlerIds : Response(h)
    \/ \E h \in HandlerIds : StopSession(h)
    \/ RunCallback
    \/ \E r \in RequestIds : ProcessGet(r)
    \/ \E r \in RequestIds : CancelProcess(r)

SpecTask == InitTask /\ [][NextTask]_vars

\* process() of request r is over without having returned
Ended(r) == process_cancelled[r] \/ process_raised[r]

\* a handler call (event handler or stop_session) on h happens in this step
HandlerCall(h) ==
    /\ last_call' # last_call
    /\ last_call'.h = h
    /\ last_call'.type \in {"RESPONSE", "PARTIAL_RESPONSE", "stop_session"}

\* every message of msgs carries key k only, and only the last may be an error
AddressedTo(msgs, k) ==
    /\ \A i \in 1..Len(msgs) : msgs[i].corr = <<k>>
    /\ \A i \in 1..(Len(msgs) - 1) : ~msgs[i].err

\* the ids of the messages of msgs without the responseError element
DataIds(msgs) ==
    LET data == SelectSeq(msgs, LAMBDA m : ~m.err)
    IN  [i \in 1..Len(data) |-> data[i].id]

LoopThreadFree == \A h \in HandlerIds : load_pc[h] = "idle"

\* current_load, first half: the loop's thread creates the iterator over
\* _current_requests.values() and starts summing
CurrentLoadBegin(h) ==
    /\ LoopThreadFree
    /\ h \in Range(request_handlers)
    /\ load_pc' = [load_pc EXCEPT ![h] = "iterating"]
    /\ load_table' = [load_table EXCEPT ![h] = current_requests[h]]
    /\ UNCHANGED <<dispatcher_vars, handler_vars, request_vars, provider_vars,
                   split_vars, stop_vars, parse_vars, merge_vars, status_vars,
                   weight_vars, array_vars, id_vars, process_cancelled,
                   last_load, last_fanout>>

\* current_load, second half: the iterator's next step; a dict whose size
\* changed since the iterator was created makes it raise RuntimeError
CurrentLoadEnd(h) ==
    /\ load_pc[h] = "iterating"
    /\ last_load' = IF current_requests[h] # load_table[h]
                    THEN [h |-> h, value |-> 0, raised |-> TRUE]
                    ELSE [h |-> h, raised |-> FALSE,
                          value |-> current_load(current_requests[h], weight)]
    /\ load_pc' = [load_pc EXCEPT ![h] = "idle"]
    /\ load_table' = [load_table EXCEPT ![h] = <<>>]
    /\ UNCHANGED <<dispatcher_vars, handler_vars, request_vars, provider_vars,
                   split_vars, stop_vars, parse_vars, merge_vars, status_vars,
                   weight_vars, array_vars, id_vars, process_cancelled,
                   last_fanout>>

\* steps of the loop's thread wait while it is inside current_load; the
\* session's thread (SessionStarted, ServiceOpened, SingleResponse) does not
NextThreads ==
    \/ /\ LoopThreadFree
       /\ num_requests < MaxRequests
       /\ \E w \in 1..MaxWeight : Dispatch(w, "//blp/refdata")
    \/ /\ LoopThreadFree
       /\ \E r \in RequestIds : SendRegister(r)
    \/ /\ LoopThreadFree
       /\ \E r \in RequestIds : SendResume(r)
    \/ /\ LoopThreadFree
       /\ RunCallback
    \/ \E h \in HandlerIds : CurrentLoadBegin(h)
    \/ \E h \in HandlerIds : CurrentLoadEnd(h)
    \/ \E h \in HandlerIds : SessionStarted(h)
    \/ \E h \in HandlerIds, s \in Services : ServiceOpened(h, s)
    \/ \E h \in HandlerIds : SingleResponse(h)

SpecThreads == Init /\ [][NextThreads]_vars

\* C35: no interleaving of the session's thread and the loop's thread
\* changes a handler's table while the other thread iterates over it or
\* reads it: while current_load runs, the table is the one it started on.
C35_NoMutationWhileIterating ==
    \A h \in HandlerIds :
        load_pc[h] = "iterating" => current_requests[h] = load_table[h]

\* ---------------------------------------------------------------------
\* A bulk query's fan-out: the whole for-loop of get_reference_data
\* ---------------------------------------------------------------------

\* the loads _choose_handler reads for a pool; a handler created in this
\* loop has an empty table
LoadsOf(pool) ==
    [i \in 1..Len(pool) |-> current_load(current_requests[pool[i]], weight)]

\* k iterations of the loop: _choose_handler per chunk. The loop has no
\* await, so no send_requests task has registered anything in between and
\* every call reads the tables as they were when the loop began
RECURSIVE fan_out(_, _, _)
fan_out(pool, k, max) ==
    IF k = 0 THEN [pool |-> pool, handlers |-> <<>>, created |-> {}]
    ELSE LET c == choose_handler(pool, LoadsOf(pool), max)
             rest == fan_out(c.pool, k - 1, max)
         IN  [pool |-> rest.pool, handlers |-> <<c.ret>> \o rest.handlers,
              created |-> rest.created \cup (IF c.created THEN {c.ret} ELSE {})]

\* nothing is pending in any handler: no registered key, no send_requests
\* task on its way
PoolIdle ==
    /\ \A h \in HandlerIds : current_requests[h] = <<>>
    /\ \A r \in RequestIds : send_pc[r] \in {"none", "done"}

\* get_reference_data / get_historical_data up to their gather: k chunks of
\* weight w are given a handler each, and a process() and a send_requests
\* task are created for each
FanOut(k, w, s) ==
    /\ LET f == fan_out(request_handlers, k, max_sessions)
           new == (num_requests + 1)..(num_requests + k)
       IN  /\ request_handlers' = f.pool
           /\ start_requested' = [h \in HandlerIds |->
                                     start_requested[h] \/ h \in f.created]
           /\ num_requests' = num_requests + k
           /\ weight' = [r \in RequestIds |->
                            IF r \in new THEN w ELSE weight[r]]
           /\ service_name' = [r \in RequestIds |->
                                  IF r \in new THEN s ELSE service_name[r]]
           /\ req_handler' = [r \in RequestIds |->
                                 IF r \in new THEN f.handlers[r - num_requests]
                                 ELSE req_handler[r]]
           /\ send_pc' = [r \in RequestIds |->
                             IF r \in new THEN "wait_session" ELSE send_pc[r]]
           /\ last_fanout' = [called |-> TRUE, chunks |-> k,
                              handlers |-> f.handlers, idle |-> PoolIdle]
    /\ UNCHANGED <<max_sessions, last_choice, stop_requested, session_started,
                   services, open_calls, current_requests, num_keys, send_key,
                   msg_queue, taken, process_done, sent, provider_vars,
                   split_vars, stop_vars, parse_vars, merge_vars, status_vars,
                   weight_vars, array_vars, id_vars, process_cancelled,
                   load_pc, load_table, last_load>>

NextFanout ==
    \/ \E k \in 1..(MaxPoolRequests - num_requests), w \in 1..MaxWeight :
           FanOut(k, w, "//blp/refdata")
    \/ \E r \in RequestIds : SendRegister(r)
    \/ \E r \in RequestIds : SendResume(r)
    \/ \E h \in HandlerIds : SessionStarted(h)
    \/ \E h \in HandlerIds, s \in Services : ServiceOpened(h, s)
    \/ \E h \in HandlerIds : SingleResponse(h)
    \/ RunCallback

SpecFanout == InitPoolSpec /\ [][NextFanout]_vars

\* C36: within one bulk query's fan-out every _choose_handler call sees the
\* load of the chunks assigned before it: with at least two chunks,
\* max_sessions at least 2 and no other request in flight, the chunks do
\* not all go to the same handler.
C36_FanOutSpreadsChunks ==
    (/\ last_fanout.called
     /\ last_fanout.chunks >= 2
     /\ max_sessions >= 2
     /\ last_fanout.idle)
    => \E i, j \in 1..Len(last_fanout.handlers) :
           last_fanout.handlers[i] # last_fanout.handlers[j]

\* C37: once stop_session has been called on a handler, every request
\* dispatched to that handler has been sent the sentinel and none is
\* registered in its table, also a request whose send_requests was still
\* suspended when stop_session ran.
C37_StopSessionReachesEveryRequest ==
    \A h \in HandlerIds :
        stop_requested[h] =>
            /\ current_requests[h] = <<>>
            /\ \A r \in RequestIds :
                   req_handler[r] = h => Sentinels(r) >= 1

\* ---------------------------------------------------------------------
\* Bulk queries under a provider that answers, with a fair loop
\* ---------------------------------------------------------------------

\* the session's last event for one or more wire requests: a RESPONSE
\* event whose messages carry their keys, or messages with the
\* responseError element in either kind of event; one message per key
TerminalEvent(h) ==
    \E ks \in SeqsUpTo(inflight[h], MaxEventLen) \ {<<>>},
       type \in {"RESPONSE", "PARTIAL_RESPONSE"} :
        \E errs \in [1..Len(ks) -> BOOLEAN] :
            /\ \A i, j \in 1..Len(ks) : i # j => ks[i] # ks[j]
            /\ type = "RESPONSE" \/ \A i \in 1..Len(ks) : errs[i]
            /\ ResponseEvent(h, type,
                             [i \in 1..Len(ks) |->
                                 [id |-> num_messages + i, corr |-> <<ks[i]>>,
                                  err |-> errs[i]]])

NextLive ==
    \/ \E k \in 1..(MaxRequests - num_requests) :
           FanOut(k, 1, "//blp/refdata")
    \/ \E r \in RequestIds : SendRegister(r)
    \/ \E r \in RequestIds : SendResume(r)
    \/ \E h \in HandlerIds : SessionStarted(h)
    \/ \E h \in HandlerIds, s \in Services : ServiceOpened(h, s)
    \/ \E h \in HandlerIds : TerminalEvent(h)
    \/ RunCallback
    \/ \E r \in RequestIds : ProcessGet(r)

\* the loop runs every ready callback and every task that can continue;
\* the sessions emit the events they owe
FairLive ==
    /\ WF_vars(RunCallback)
    /\ \A r \in RequestIds : WF_vars(SendRegister(r))
    /\ \A r \in RequestIds : WF_vars(SendResume(r))
    /\ \A r \in RequestIds : WF_vars(ProcessGet(r))
    /\ \A h \in HandlerIds : WF_vars(SessionStarted(h))
    /\ \A h \in HandlerIds : \A s \in Services : WF_vars(ServiceOpened(h, s))
    /\ \A h \in HandlerIds : WF_vars(TerminalEvent(h))

SpecLive == InitPoolSpec /\ [][NextLive]_vars /\ FairLive

ChunkLists == SeqsUpTo({"a"}, MaxWeight) \ {<<>>}

\* SecurityLookupRequest (and CurveLookupRequest, GovernmentLookupRequest,
\* which inherit it): constructed with super().__init__([], [], ...), its
\* weight is ReferenceDataRequest's
SecurityLookupRequest_weight == ReferenceDataRequest_weight(<<>>, <<>>)

\* one chunk of get_reference_data
DispatchReference ==
    \E secs \in ChunkLists, flds \in ChunkLists :
        Dispatch(ReferenceDataRequest_weight(secs, flds), "//blp/refdata")

\* one chunk of get_historical_data, for a date range with start <= end
DispatchHistorical ==
    \E secs \in ChunkLists, flds \in ChunkLists :
        \E start \in 0..MaxDays, end \in 0..MaxDays :
            /\ start <= end
            /\ Dispatch(HistoricalDataRequest_weight(secs, flds, start, end),
                        "//blp/refdata")

\* security_lookup, curve_lookup, government_lookup
DispatchLookup ==
    Dispatch(SecurityLookupRequest_weight, "//blp/instruments")

NextTypes ==
    \/ /\ num_requests < MaxRequests
       /\ DispatchReference
    \/ /\ num_requests < MaxRequests
       /\ DispatchHistorical
    \/ /\ num_requests < MaxRequests
       /\ DispatchLookup
    \/ \E r \in RequestIds : SendRegister(r)
    \/ \E r \in RequestIds : SendResume(r)
    \/ \E h \in HandlerIds : SessionStarted(h)
    \/ \E h \in HandlerIds, s \in Services : ServiceOpened(h, s)
    \/ \E h \in HandlerIds : SingleResponse(h)
    \/ RunCallback

SpecTypes == InitPoolSpec /\ [][NextTypes]_vars

\* C39: _choose_handler takes a handler for free only when it has no
\* current requests: a handler with a non-empty table has a nonzero load,
\* for every request type (reference, historical with start <= end, the
\* lookups).
C39_RegisteredMeansLoaded ==
    \A h \in HandlerIds :
        current_requests[h] # <<>>
            => current_load(current_requests[h], weight) > 0

====
